---------------------------- MODULE Spec2Model ----------------------------
(***************************************************************************)
(* A model of the page-layout core of pymupdf4llm as vendored in           *)
(* talexeyft/lng_chain: reading order (helpers/utils.py), box repair and   *)
(* table validation (helpers/utils.py), the OCR decision                   *)
(* (helpers/check_ocr.py) and the per-page loop and the serializers of     *)
(* helpers/document_layout.py.                                             *)
(*                                                                         *)
(* Rectangles are records [x0, y0, x1, y1] over the integers; a layout box *)
(* carries its class in the field cls.  Fractions of the code (0.8, 0.3,   *)
(* 12 * height / 800, ...) are compared after cross-multiplication, so no  *)
(* rounding is introduced.                                                 *)
(***************************************************************************)
EXTENDS Integers, Sequences, FiniteSets, TLC

VARIABLES
    pc,                  \* which operation has run ("input", "done", ...)
    layout_information,  \* the page's box list (page.layout_information)
    blocks,              \* the page's content primitives (extractDICT blocks)
    out,                 \* what the operation under study returned / left
    document             \* the ParsedDocument handed to the serializers

vars == <<pc, layout_information, blocks, out, document>>

---------------------------------------------------------------------------
(* Generic helpers                                                         *)

Min(a, b) == IF a <= b THEN a ELSE b
Max(a, b) == IF a >= b THEN a ELSE b
SetMin(S) == CHOOSE m \in S : \A n \in S : m <= n
SetMax(S) == CHOOSE m \in S : \A n \in S : m >= n
Range(s) == {s[i] : i \in DOMAIN s}

RECURSIVE Concat(_)
Concat(ss) == IF ss = <<>> THEN <<>> ELSE Head(ss) \o Concat(Tail(ss))

\* The indices of s whose element satisfies the index predicate, in order.
RECURSIVE KeepIdx(_, _)
KeepIdx(n, S) ==
    IF n = 0 THEN <<>>
    ELSE IF n \in S THEN Append(KeepIdx(n - 1, S), n) ELSE KeepIdx(n - 1, S)

\* [x for x in s if i in S], by position.
Keep(s, S) == LET ix == KeepIdx(Len(s), S) IN [k \in 1..Len(ix) |-> s[ix[k]]]

\* Python's sorted(s, key=...): ascending and stable.  keys[i] is the key of
\* s[i]; an element's place is the number of elements that sort before it.
SortRank(keys, i) ==
    1 + Cardinality({j \in DOMAIN keys :
                        keys[j] < keys[i] \/ (keys[j] = keys[i] /\ j < i)})
SortedByKey(s, keys) ==
    [r \in 1..Len(s) |-> s[CHOOSE i \in 1..Len(s) : SortRank(keys, i) = r]]

\* How often a value occurs in a sequence.
Count(s, v) == Cardinality({i \in DOMAIN s : s[i] = v})
\* Same elements with the same multiplicities.
IsPermutation(s, t) ==
    /\ Len(s) = Len(t)
    /\ \A i \in DOMAIN s : Count(s, s[i]) = Count(t, s[i])

---------------------------------------------------------------------------
(* Rectangle geometry: helpers/utils.py and the pymupdf.Rect operations    *)
(* the code calls.                                                         *)

Rect(a, b, c, d) == [x0 |-> a, y0 |-> b, x1 |-> c, y1 |-> d]
Box(a, b, c, d, k) == [x0 |-> a, y0 |-> b, x1 |-> c, y1 |-> d, cls |-> k]
RectOf(b) == Rect(b.x0, b.y0, b.x1, b.y1)
WithClass(r, k) == Box(r.x0, r.y0, r.x1, r.y1, k)

bbox_is_empty(r) == r.x0 >= r.x1 \/ r.y0 >= r.y1

\* pymupdf.Rect.intersects: False as soon as one of the two is empty.
Intersects(r, s) ==
    /\ ~bbox_is_empty(r)
    /\ ~bbox_is_empty(s)
    /\ r.x0 < s.x1 /\ s.x0 < r.x1
    /\ r.y0 < s.y1 /\ s.y0 < r.y1

\* "s in r" for a rectangle-like s and a pymupdf.Rect r.
RectIn(s, r) ==
    /\ r.x0 <= s.x0 /\ s.x0 <= s.x1 /\ s.x1 <= r.x1
    /\ r.y0 <= s.y0 /\ s.y0 <= s.y1 /\ s.y1 <= r.y1

\* abs(Rect): the area, 0 for an empty rectangle.
RectArea(r) == IF bbox_is_empty(r) THEN 0 ELSE (r.x1 - r.x0) * (r.y1 - r.y0)

\* Rect |= s (include_rect): an empty operand leaves the other one.
RectUnion(r, s) ==
    IF bbox_is_empty(s) THEN r
    ELSE IF bbox_is_empty(r) THEN s
    ELSE Rect(Min(r.x0, s.x0), Min(r.y0, s.y0), Max(r.x1, s.x1), Max(r.y1, s.y1))

intersect_rects(r, s) ==
    Rect(Max(r.x0, s.x0), Max(r.y0, s.y0), Min(r.x1, s.x1), Min(r.y1, s.y1))

outside_bbox(b, cell) ==
    \/ b.x0 >= cell.x1
    \/ b.x1 <= cell.x0
    \/ b.y0 >= cell.y1
    \/ b.y1 <= cell.y0

bbox_in_bbox(inner, outer) ==
    /\ outer.x0 <= inner.x0
    /\ outer.y0 <= inner.y0
    /\ outer.x1 >= inner.x1
    /\ outer.y1 >= inner.y1

---------------------------------------------------------------------------
(* Reading order: helpers/utils.py, find_reading_order and its helpers.    *)

\* The page rectangle handed to find_reading_order (page.rect).
page_rect == Rect(0, 0, 24, 800)
\* The default of find_reading_order's vertical_gap parameter.
VerticalGap == 12
\* this_vertical_gap = vertical_gap * page_rect.height / 800 is the fraction
\* GapNum / GapDen.
GapNum == VerticalGap * (page_rect.y1 - page_rect.y0)
GapDen == 800

\* is_contained of find_reading_order: geometric containment of two boxes
\* that differ as values (class included).
is_contained(inner, outer) ==
    /\ outer.x0 <= inner.x0
    /\ outer.y0 <= inner.y0
    /\ outer.x1 >= inner.x1
    /\ outer.y1 >= inner.y1
    /\ inner # outer

\* The loop of filter_contained over the boxes sorted by descending area.
RECURSIVE FilterLoop(_, _, _)
FilterLoop(sorted_boxes, i, result) ==
    IF i > Len(sorted_boxes) THEN result
    ELSE LET r == sorted_boxes[i]
         IN  IF \E k \in DOMAIN result : is_contained(r, result[k])
             THEN FilterLoop(sorted_boxes, i + 1, result)
             ELSE FilterLoop(sorted_boxes, i + 1, Append(result, r))

\* A sort that forgets the area: the boxes stay in input order.
AreaKeyNoSort(r) == 0

\* The sort key of filter_contained; reverse=True is the negated key (the
\* sort stays stable, as Python's does).
AreaKey(r) == -((r.x1 - r.x0) * (r.y1 - r.y0))

filter_contained(boxes) ==
    FilterLoop(SortedByKey(boxes, [i \in DOMAIN boxes |-> AreaKey(boxes[i])]),
               1, <<>>)

\* is_multi_column_layout of cluster_stripes: walking the boxes left to
\* right, some box starts more than 3 units right of everything before it
\* in its column.
RECURSIVE MultiColLoop(_, _, _, _)
MultiColLoop(sorted_boxes, i, prev_right, ncols) ==
    IF i > Len(sorted_boxes) THEN ncols
    ELSE LET box == sorted_boxes[i]
         IN  IF box.x0 - prev_right > 3
             THEN MultiColLoop(sorted_boxes, i + 1, box.x1, ncols + 1)
             ELSE MultiColLoop(sorted_boxes, i + 1, Max(prev_right, box.x1), ncols)

is_multi_column_layout(boxes) ==
    LET sorted_boxes == SortedByKey(boxes, [i \in DOMAIN boxes |-> boxes[i].x0])
    IN  MultiColLoop(sorted_boxes, 2, sorted_boxes[1].x1, 1) > 1

\* divider(y, joined, gap).intersects(b): the divider is the full-width
\* rectangle [joined.x0, y, joined.x1, y + gap].
DividerHits(y, joined, b) ==
    /\ joined.x0 < joined.x1 /\ GapNum > 0
    /\ ~bbox_is_empty(RectOf(b))
    /\ joined.x0 < b.x1 /\ b.x0 < joined.x1
    /\ y < b.y1
    /\ GapDen * (b.y0 - y) < GapNum

\* The tops of the boxes that start at or below the divider's bottom
\* (b[1] >= div.y1).
TopsBelow(y, boxes) ==
    {boxes[i].y0 : i \in {j \in DOMAIN boxes : GapDen * (boxes[j].y0 - y) >= GapNum}}

\* How many vectors contain the divider [joined.x0, y, joined.x1, y0] in
\* their vertical span and intersect it.
InterCount(y, y0, joined, vectors) ==
    Cardinality({k \in DOMAIN vectors :
        /\ Intersects(Rect(joined.x0, y, joined.x1, y0), vectors[k])
        /\ vectors[k].y0 <= y
        /\ y0 <= vectors[k].y1})

\* The bottoms y of boxes below which an empty full-width divider starts.
DividerBottoms(boxes, joined) ==
    {boxes[i].y1 : i \in {j \in DOMAIN boxes :
        /\ boxes[j].y1 < joined.y1
        /\ \A k \in DOMAIN boxes : ~DividerHits(boxes[j].y1, joined, boxes[k])}}

\* min() of an empty sequence: cluster_stripes raises ValueError when a
\* divider has no box below it.
StripesRaise(boxes, joined) ==
    /\ ~is_multi_column_layout(boxes)
    /\ \E y \in DividerBottoms(boxes, joined) : TopsBelow(y, boxes) = {}

\* y_values of cluster_stripes.
YValues(boxes, joined, vectors) ==
    {joined.y1} \cup
    {SetMin(TopsBelow(y, boxes)) : y \in
        {z \in DividerBottoms(boxes, joined) :
            InterCount(z, SetMin(TopsBelow(z, boxes)), joined, vectors) <= 1}}

\* The final loop of cluster_stripes: for each y in ascending order, pop
\* the boxes whose bottom is <= y off the front of sorted_boxes.
RECURSIVE PopWhile(_, _)
PopWhile(sorted_boxes, y) ==
    IF sorted_boxes # <<>> /\ Head(sorted_boxes).y1 <= y
    THEN PopWhile(Tail(sorted_boxes), y)
    ELSE sorted_boxes

RECURSIVE StripeLoop(_, _, _)
StripeLoop(ys, sorted_boxes, stripes) ==
    IF ys = <<>> THEN stripes
    ELSE LET rest == PopWhile(sorted_boxes, Head(ys))
             current_stripe == SubSeq(sorted_boxes, 1, Len(sorted_boxes) - Len(rest))
         IN  StripeLoop(Tail(ys), rest,
                        IF current_stripe # <<>> THEN Append(stripes, current_stripe)
                        ELSE stripes)

SetToSortedSeq(S) ==
    [r \in 1..Cardinality(S) |->
        CHOOSE v \in S : Cardinality({w \in S : w < v}) = r - 1]

cluster_stripes(boxes, joined, vectors) ==
    IF boxes = <<>> THEN boxes
    ELSE IF is_multi_column_layout(boxes) THEN <<boxes>>
    ELSE StripeLoop(SetToSortedSeq(YValues(boxes, joined, vectors)),
                    SortedByKey(boxes, [i \in DOMAIN boxes |-> boxes[i].y1]),
                    <<>>)

\* cluster_substripe: walk the boxes left to right; a box whose left edge is
\* more than HORIZONTAL_GAP right of the current column starts a new column;
\* every finished column is sorted top to bottom.
HORIZONTAL_GAP == 1

SortedByTop(col) == SortedByKey(col, [i \in DOMAIN col |-> col[i].y0])

RECURSIVE SubstripeLoop(_, _, _, _)
SubstripeLoop(sorted_boxes, i, current_column, columns) ==
    IF i > Len(sorted_boxes) THEN Append(columns, SortedByTop(current_column))
    ELSE LET box == sorted_boxes[i]
             prev_right == SetMax({current_column[k].x1 : k \in DOMAIN current_column})
         IN  IF box.x0 - prev_right > HORIZONTAL_GAP
             THEN SubstripeLoop(sorted_boxes, i + 1, <<box>>,
                                Append(columns, SortedByTop(current_column)))
             ELSE SubstripeLoop(sorted_boxes, i + 1, Append(current_column, box),
                                columns)

cluster_substripe(substripe) ==
    IF substripe = <<>> THEN <<>>
    ELSE LET sorted_boxes ==
                 SortedByKey(substripe, [i \in DOMAIN substripe |-> substripe[i].x0])
         IN  SubstripeLoop(sorted_boxes, 2, <<sorted_boxes[1]>>, <<>>)

\* expanded(b) of cluster_columns_in_stripe: b widened to the stripe's width.
Expanded(b, stripe) ==
    Rect(SetMin({stripe[i].x0 : i \in DOMAIN stripe}), b.y0,
         SetMax({stripe[i].x1 : i \in DOMAIN stripe}), b.y1)

\* The positions of the solitaries: boxes whose widened band every other
\* box (other as a value: r != b) is outside of.
SolitaryIdx(stripe) ==
    {i \in DOMAIN stripe :
        \A j \in DOMAIN stripe :
            stripe[j] # stripe[i] => outside_bbox(stripe[j], Expanded(stripe[i], stripe))}

\* The loop over the solitaries, top to bottom: the sub-band above the
\* solitary and below the previous one, then the solitary as its own column.
RECURSIVE SolitaryLoop(_, _, _, _)
SolitaryLoop(stripe, solitaries, s0, finalists) ==
    IF solitaries = <<>> THEN finalists
    ELSE LET sol == Head(solitaries)
             sstripe == Keep(stripe, {i \in DOMAIN stripe :
                                        stripe[i].y1 <= sol.y0 /\ stripe[i].y0 >= s0})
         IN  SolitaryLoop(stripe, Tail(solitaries), sol.y1,
                          Append(finalists \o cluster_substripe(sstripe), <<sol>>))

cluster_columns_in_stripe(stripe) ==
    LET sol_unsorted == Keep(stripe, SolitaryIdx(stripe))
        solitaries == SortedByTop(sol_unsorted)
    IN  IF solitaries = <<>> THEN cluster_substripe(stripe)
        ELSE LET y0 == SetMin({stripe[i].y0 : i \in DOMAIN stripe})
                 upper == SolitaryLoop(stripe, solitaries, y0, <<>>)
                 last_bottom == solitaries[Len(solitaries)].y1
                 sstripe == Keep(stripe, {i \in DOMAIN stripe :
                                            stripe[i].y0 >= last_bottom})
             IN  upper \o cluster_substripe(sstripe)

\* compute_reading_order: the columns of every stripe, concatenated.
compute_reading_order(boxes, joined, vectors) ==
    LET stripes == cluster_stripes(boxes, joined, vectors)
    IN  Concat([k \in DOMAIN stripes |-> Concat(cluster_columns_in_stripe(stripes[k]))])

\* The three groups find_reading_order separates the filtered boxes into.
page_headers(filtered) ==
    Keep(filtered, {i \in DOMAIN filtered : filtered[i].cls = "page-header"})
page_footers(filtered) ==
    Keep(filtered, {i \in DOMAIN filtered : filtered[i].cls = "page-footer"})
body_boxes(filtered) ==
    Keep(filtered, {i \in DOMAIN filtered :
                        filtered[i].cls \notin {"page-header", "page-footer"}})

\* pymupdf.EMPTY_RECT()
EMPTY_RECT == Rect(0, 0, 0, 0)

joined_boxes(body) ==
    IF body = <<>> THEN EMPTY_RECT
    ELSE Rect(SetMin({body[i].x0 : i \in DOMAIN body}),
              SetMin({body[i].y0 : i \in DOMAIN body}),
              SetMax({body[i].x1 : i \in DOMAIN body}),
              SetMax({body[i].y1 : i \in DOMAIN body}))

\* The vectors find_reading_order hands on: blocks at least as high as the
\* lowest body box and inside the joined rectangle.
ReadingVectors(blks, body) ==
    LET min_bbox_height == SetMin({body[i].y1 - body[i].y0 : i \in DOMAIN body})
        ix == KeepIdx(Len(blks), {i \in DOMAIN blks :
                  /\ blks[i].bbox.y1 - blks[i].bbox.y0 >= min_bbox_height
                  /\ RectIn(blks[i].bbox, joined_boxes(body))})
    IN  [k \in 1..Len(ix) |-> blks[ix[k]].bbox]

\* The header / footer groups left in the order the filter produced.
SortedTopLeftNoSort(group) == group

\* sorted(page_headers, key=lambda r: (r[1], r[0])), also used for footers:
\* (top, left) compared lexicographically.
SortedTopLeft(group) ==
    [r \in 1..Len(group) |->
        group[CHOOSE i \in 1..Len(group) :
            r = 1 + Cardinality({j \in DOMAIN group :
                    \/ group[j].y0 < group[i].y0
                    \/ (group[j].y0 = group[i].y0 /\ group[j].x0 < group[i].x0)
                    \/ (group[j].y0 = group[i].y0 /\ group[j].x0 = group[i].x0 /\ j < i)})]]

\* Whether find_reading_order ends with an exception instead of a list.
ReadingOrderRaises(blks, boxes) ==
    LET body == body_boxes(filter_contained(boxes))
    IN  /\ ~bbox_is_empty(joined_boxes(body))
        /\ StripesRaise(body, joined_boxes(body))

\* The body part of find_reading_order's result.
OrderedBody(blks, boxes) ==
    LET body == body_boxes(filter_contained(boxes))
    IN  IF bbox_is_empty(joined_boxes(body)) THEN <<>>
        ELSE compute_reading_order(body, joined_boxes(body), ReadingVectors(blks, body))

find_reading_order(blks, boxes) ==
    LET filtered == filter_contained(boxes)
    IN  SortedTopLeft(page_headers(filtered))
        \o OrderedBody(blks, boxes)
        \o SortedTopLeft(page_footers(filtered))

---------------------------------------------------------------------------
(* Box repair: helpers/utils.py, clean_pictures and add_image_orphans.     *)
(* A content block is a record [type, bbox, isrect, lines] with type 0     *)
(* (text), 1 (image) or 3 (vector graphic).  Coordinates are integers, so  *)
(* pymupdf.IRect(b["bbox"]) is the block's bbox itself.                    *)

\* The rectangle clean_pictures tests a block with: an empty vector bbox is
\* widened by one unit on every side.
BlockBBox(b) ==
    IF b.type = 3 /\ bbox_is_empty(b.bbox)
    THEN Rect(b.bbox.x0 - 1, b.bbox.y0 - 1, b.bbox.x1 + 1, b.bbox.y1 + 1)
    ELSE b.bbox

\* One round of the block loop of clean_pictures for layout box i: the
\* growing bbox takes in block b if it intersects it and no other box's
\* rectangle in all_bboxes (the rectangles as they were on entry) does.
ExtendStep(bbox, b, i, all_bboxes) ==
    IF /\ b.type \in {0, 1, 3}
       /\ Intersects(bbox, BlockBBox(b))
       /\ ~\E j \in DOMAIN all_bboxes :
              j # i /\ Intersects(all_bboxes[j], BlockBBox(b))
    THEN RectUnion(bbox, BlockBBox(b))
    ELSE bbox

RECURSIVE ExtendLoop(_, _, _, _, _)
ExtendLoop(bbox, blks, k, i, all_bboxes) ==
    IF k > Len(blks) THEN bbox
    ELSE CHOOSE result \in
            {ExtendLoop(nxt, blks, k + 1, i, all_bboxes) :
                nxt \in {ExtendStep(bbox, blks[k], i, all_bboxes)}} : TRUE

clean_pictures(boxes, blks) ==
    LET all_bboxes == [i \in DOMAIN boxes |-> RectOf(boxes[i])]
    IN  [i \in DOMAIN boxes |->
            IF boxes[i].cls \notin {"picture", "formula", "table"} THEN boxes[i]
            ELSE WithClass(ExtendLoop(RectOf(boxes[i]), blks, 1, i, all_bboxes),
                           boxes[i].cls)]

\* The page rectangle of the repair model (page.rect).
repair_page_rect == Rect(0, 0, 240, 40)

\* abs(r) >= area_limit, with area_limit = abs(page.rect) * 0.9
TooLarge(r) == 10 * RectArea(r) >= 9 * RectArea(repair_page_rect)

\* Rect.width, Rect.height
Width(r) == Max(0, r.x1 - r.x0)
Height(r) == Max(0, r.y1 - r.y0)

\* The images add_image_orphans considers: clipped to the page, not
\* line-like, not empty, not too large.
OrphanImages(blks) ==
    LET clipped(k) == intersect_rects(repair_page_rect, blks[k].bbox)
        ix == KeepIdx(Len(blks), {k \in DOMAIN blks :
                  /\ blks[k].type = 1
                  /\ ~(Width(clipped(k)) <= 3 \/ Height(clipped(k)) <= 3)
                  /\ ~(bbox_is_empty(clipped(k)) \/ TooLarge(clipped(k)))})
    IN  [n \in 1..Len(ix) |-> clipped(ix[n])]

\* sorted(rects, key=abs, reverse=True)
SortedByAreaDesc(rects) ==
    SortedByKey(rects, [k \in DOMAIN rects |-> -RectArea(rects[k])])

\* The vectors that become paths: large enough, not overlapping a layout box
\* by more than a tenth (of the smaller of the two), not covered by an image
\* to more than 80 %.
OrphanPaths(blks, all_bboxes, images) ==
    LET ix == KeepIdx(Len(blks), {k \in DOMAIN blks :
                  /\ blks[k].type = 3
                  /\ blks[k].bbox.y1 - blks[k].bbox.y0 > 3
                  /\ blks[k].bbox.x1 - blks[k].bbox.x0 > 3})
        vectors == SortedByAreaDesc(
                      [n \in 1..Len(ix) |->
                          intersect_rects(repair_page_rect, blks[ix[n]].bbox)])
    IN  Keep(vectors, {n \in DOMAIN vectors :
            /\ ~TooLarge(vectors[n])
            /\ ~\E j \in DOMAIN all_bboxes :
                  10 * RectArea(intersect_rects(vectors[n], all_bboxes[j]))
                      > Min(RectArea(vectors[n]), RectArea(all_bboxes[j]))
            /\ ~\E j \in DOMAIN images :
                  10 * RectArea(intersect_rects(vectors[n], images[j]))
                      > 8 * RectArea(vectors[n])})

\* page.cluster_drawings(drawings=paths, x_tolerance=20, y_tolerance=20) of
\* pymupdf.  Two rectangles are neighbours when, in x and in y, a corner
\* coordinate of one lies within the other's extent widened by the
\* tolerance.  The first rectangle of the sorted list is grown by passes
\* from the back of the list to its second entry, joining and deleting
\* every neighbour, until a pass joins nothing; the clusters wider and
\* higher than the tolerance are returned, sorted by (y1, x0).  Every path
\* of this model lies on the page, so none is excluded by the clip.
CLUSTER_TOLERANCE == 20

CornerNear(r1, r2) ==
    /\ \/ r2.x0 - CLUSTER_TOLERANCE <= r1.x0 /\ r1.x0 <= r2.x1 + CLUSTER_TOLERANCE
       \/ r2.x0 - CLUSTER_TOLERANCE <= r1.x1 /\ r1.x1 <= r2.x1 + CLUSTER_TOLERANCE
    /\ \/ r2.y0 - CLUSTER_TOLERANCE <= r1.y0 /\ r1.y0 <= r2.y1 + CLUSTER_TOLERANCE
       \/ r2.y0 - CLUSTER_TOLERANCE <= r1.y1 /\ r1.y1 <= r2.y1 + CLUSTER_TOLERANCE

are_neighbors(r1, r2) == CornerNear(r1, r2) \/ CornerNear(r2, r1)

\* One step of a pass: entry i of prects against the growing rectangle.
ClusterPassStep(g, i) ==
    IF are_neighbors(g.prects[i], g.r)
    THEN [r |-> RectUnion(g.r, g.prects[i]),
          prects |-> Keep(g.prects, DOMAIN g.prects \ {i}),
          repeat |-> TRUE]
    ELSE g

RECURSIVE ClusterPass(_, _)
ClusterPass(g, i) ==
    IF i < 2 THEN g
    ELSE CHOOSE result \in
            {ClusterPass(nxt, i - 1) : nxt \in {ClusterPassStep(g, i)}} : TRUE

RECURSIVE GrowCluster(_, _)
GrowCluster(r, prects) ==
    CHOOSE result \in
        {IF g.repeat THEN GrowCluster(g.r, g.prects) ELSE g :
            g \in {ClusterPass([r |-> r, prects |-> prects, repeat |-> FALSE],
                               Len(prects))}} : TRUE

\* sorted(set(rects), key=lambda r: (r.y1, r.x0)); rectangles with the same
\* key are put in the order of their other two coordinates.
BottomLeftBefore(q, r) ==
    \/ q.y1 < r.y1
    \/ q.y1 = r.y1 /\ q.x0 < r.x0
    \/ q.y1 = r.y1 /\ q.x0 = r.x0 /\ q.x1 < r.x1
    \/ q.y1 = r.y1 /\ q.x0 = r.x0 /\ q.x1 = r.x1 /\ q.y0 < r.y0
SortedBottomLeft(S) ==
    [n \in 1..Cardinality(S) |->
        CHOOSE r \in S : n = 1 + Cardinality({q \in S : BottomLeftBefore(q, r)})]

RECURSIVE ClusterLoop(_, _)
ClusterLoop(prects, new_rects) ==
    IF prects = <<>> THEN new_rects
    ELSE CHOOSE result \in
            {ClusterLoop(SortedBottomLeft(Range(Tail(g.prects))),
                         Append(new_rects, g.r)) :
                g \in {GrowCluster(Head(prects), prects)}} : TRUE

\* The clusters that pass cluster_drawings' final filter.
LargerThan(rects, limit) ==
    Keep(rects, {n \in DOMAIN rects :
                    Width(rects[n]) > limit /\ Height(rects[n]) > limit})

cluster_drawings(paths) ==
    CHOOSE result \in
        {LargerThan(sorted_clusters, CLUSTER_TOLERANCE) :
            sorted_clusters \in
                {SortedBottomLeft(Range(clusters)) :
                    clusters \in {ClusterLoop(SortedBottomLeft(Range(paths)), <<>>)}}} :
        TRUE

\* Mutual containment of the candidates, largest first.
RECURSIVE OrphanFilterLoop(_, _, _)
OrphanFilterLoop(imgs, n, filtered_imgs) ==
    IF n > Len(imgs) THEN filtered_imgs
    ELSE CHOOSE result \in
            {OrphanFilterLoop(imgs, n + 1, nxt) :
                nxt \in {IF \E k \in DOMAIN filtered_imgs :
                              bbox_in_bbox(imgs[n], filtered_imgs[k])
                         THEN filtered_imgs
                         ELSE Append(filtered_imgs, imgs[n])}} : TRUE

\* The final loop of add_image_orphans: a candidate that overlaps no box of
\* all_bboxes by more than a tenth is appended as a picture and joins
\* all_bboxes.
OrphanIsFree(r, all_bboxes) ==
    ~\E j \in DOMAIN all_bboxes :
        10 * RectArea(intersect_rects(r, all_bboxes[j]))
            > Min(RectArea(r), RectArea(all_bboxes[j]))

RECURSIVE OrphanAppendLoop(_, _, _, _)
OrphanAppendLoop(filtered_imgs, n, boxes, all_bboxes) ==
    IF n > Len(filtered_imgs) THEN boxes
    ELSE CHOOSE result \in
            {OrphanAppendLoop(filtered_imgs, n + 1, nxt.boxes, nxt.all_bboxes) :
                nxt \in {IF OrphanIsFree(filtered_imgs[n], all_bboxes)
                         THEN [boxes |-> Append(boxes,
                                   WithClass(filtered_imgs[n], "picture")),
                               all_bboxes |-> Append(all_bboxes, filtered_imgs[n])]
                         ELSE [boxes |-> boxes, all_bboxes |-> all_bboxes]}} : TRUE

\* The candidates of add_image_orphans: the images and the vector clusters
\* wider and higher than 30, largest first, without those contained in a
\* larger one.  (Only the 500 largest vectors and candidates are looked at;
\* a page of this model has fewer.)
OrphanCandidates(blks, all_bboxes) ==
    CHOOSE result \in
        {OrphanFilterLoop(imgs, 1, <<>>) :
            imgs \in
                {SortedByAreaDesc(images \o LargerThan(clusters, 30)) :
                    images \in {OrphanImages(blks)},
                    clusters \in
                        {cluster_drawings(paths) :
                            paths \in
                                {OrphanPaths(blks, all_bboxes, im) :
                                    im \in {OrphanImages(blks)}}}}} :
        TRUE

add_image_orphans(boxes, blks) ==
    CHOOSE result \in
        {OrphanAppendLoop(filtered_imgs, 1, boxes, all_bboxes) :
            filtered_imgs \in {OrphanCandidates(blks, all_bboxes) :
                all_bboxes \in {[i \in DOMAIN boxes |-> RectOf(boxes[i])]}},
            all_bboxes \in {[i \in DOMAIN boxes |-> RectOf(boxes[i])]}} :
        TRUE

---------------------------------------------------------------------------
(* Table validation: helpers/utils.py, table_cleaner and clean_tables.     *)
(* A text block's lines are records [bbox, spans], spans being the         *)
(* sequence of the span rectangles.  Coordinates are whole numbers, so     *)
(* round(l["bbox"][3]) is the line's bottom itself.                        *)

None == [none |-> TRUE]

\* The lines of the text blocks, in block order.
TextLines(blks) ==
    Concat([k \in DOMAIN blks |->
               IF blks[k].type = 0 THEN blks[k].lines ELSE <<>>])

\* [l for b in blocks if b["type"] == 0 for l in b["lines"] if l["bbox"] in bbox]
LinesIn(blks, bbox) ==
    CHOOSE result \in
        {Keep(ls, {n \in DOMAIN ls : RectIn(ls[n].bbox, bbox)}) :
            ls \in {TextLines(blks)}} : TRUE

\* The span rectangles of the text blocks that lie in bbox.
SpanRects(blks, bbox) ==
    CHOOSE result \in
        {Keep(ss, {n \in DOMAIN ss : RectIn(ss[n], bbox)}) :
            ss \in {Concat([n \in DOMAIN ls |-> ls[n].spans]) :
                       ls \in {TextLines(blks)}}} : TRUE

\* "point in rect" of pymupdf: the right and the bottom edge are outside.
PointIn(x, y, r) == r.x0 <= x /\ x < r.x1 /\ r.y0 <= y /\ y < r.y1

\* The non-rectangle vectors whose top-left corner is in bbox.
TiltVectors(blks, bbox) ==
    Keep(blks, {k \in DOMAIN blks :
                   /\ blks[k].type = 3
                   /\ PointIn(blks[k].bbox.x0, blks[k].bbox.y0, bbox)
                   /\ ~blks[k].isrect})

\* The rectangle containing the vectors of the non-empty sequence tv.
TiltedRect(tv) ==
    Rect(SetMin({tv[k].bbox.x0 : k \in DOMAIN tv}),
         SetMin({tv[k].bbox.y0 : k \in DOMAIN tv}),
         SetMax({tv[k].bbox.x1 : k \in DOMAIN tv}),
         SetMax({tv[k].bbox.y1 : k \in DOMAIN tv}))

\* for r in span_rects: if tilted.intersects(r): tilted |= r
RECURSIVE TiltedLoop(_, _, _)
TiltedLoop(tilted, span_rects, n) ==
    IF n > Len(span_rects) THEN tilted
    ELSE CHOOSE result \in
            {TiltedLoop(nxt, span_rects, n + 1) :
                nxt \in {IF Intersects(tilted, span_rects[n])
                         THEN RectUnion(tilted, span_rects[n])
                         ELSE tilted}} : TRUE

\* table_cleaner once the rectangle of the tilted vectors is known.
TableCut(blks, tbbox, tilted) ==
    IF /\ 10 * Width(tilted) >= 8 * Width(RectOf(tbbox))
       /\ 10 * Height(tilted) >= 8 * Height(RectOf(tbbox))
    THEN [rc1 |-> WithClass(RectOf(tbbox), "picture"), rc2 |-> None]
    ELSE IF /\ 10 * (tilted.y1 - tbbox.y0) <= 3 * Height(RectOf(tbbox))
            /\ 10 * Width(tilted) >= 7 * Width(RectOf(tbbox))
    THEN CHOOSE result \in
            {[rc1 |-> Box(tbbox.x0, tbbox.y0, tbbox.x1, t.y1, "picture"),
              rc2 |-> Box(tbbox.x0, t.y1 + 1, tbbox.x1, tbbox.y1, "table")] :
                t \in {TiltedLoop([tilted EXCEPT !.y1 = @ + 2],
                                  SpanRects(blks, RectOf(tbbox)), 1)}} : TRUE
    ELSE [rc1 |-> None, rc2 |-> None]

table_cleaner(blks, tbbox) ==
    IF TiltVectors(blks, RectOf(tbbox)) = <<>>
    THEN [rc1 |-> None, rc2 |-> None]
    ELSE CHOOSE result \in
            {TableCut(blks, tbbox, tilted) :
                tilted \in {TiltedRect(TiltVectors(blks, RectOf(tbbox)))}} : TRUE

\* y_vals of clean_tables: of the sorted line bottoms, the first and every
\* one more than 3 below the last one kept.
RECURSIVE BaselineLoop(_, _, _)
BaselineLoop(y_vals0, n, y_vals) ==
    IF n > Len(y_vals0) THEN y_vals
    ELSE CHOOSE result \in
            {BaselineLoop(y_vals0, n + 1, nxt) :
                nxt \in {IF y_vals0[n] - y_vals[Len(y_vals)] > 3
                         THEN Append(y_vals, y_vals0[n])
                         ELSE y_vals}} : TRUE

\* The largest number of lines found within 3 of a baseline of y_vals, as far
\* as clean_tables looks: it is at least 2 iff some baseline has two lines.
SameBaseline(lines, y_vals) ==
    \E k \in DOMAIN y_vals :
        Cardinality({n \in DOMAIN lines :
                        lines[n].bbox.y1 - y_vals[k] <= 3
                            /\ y_vals[k] - lines[n].bbox.y1 <= 3}) > 1

\* The list after a table box that passed the tests went through
\* table_cleaner: unchanged, replaced by a picture, or replaced by the
\* reduced table with the picture inserted before it.
AfterCleaner(L, i, rc) ==
    IF rc.rc1 = None THEN L
    ELSE IF rc.rc2 = None THEN [L EXCEPT ![i] = rc.rc1]
    ELSE SubSeq(L, 1, i - 1) \o <<rc.rc1, rc.rc2>> \o SubSeq(L, i + 1, Len(L))

\* The body of the loop of clean_tables for index i, given the lines in the
\* box at i.
ValidateTable(L, i, blks, lines) ==
    IF lines = <<>> THEN [L EXCEPT ![i].cls = "table-fallback"]
    ELSE CHOOSE result \in
            {IF Len(y_vals) < 2 \/ ~SameBaseline(lines, y_vals)
             THEN [L EXCEPT ![i].cls = "text"]
             ELSE AfterCleaner(L, i, table_cleaner(blks, L[i])) :
                y_vals \in
                    {BaselineLoop(y_vals0, 2, <<y_vals0[1]>>) :
                        y_vals0 \in {SetToSortedSeq(
                            {lines[n].bbox.y1 : n \in DOMAIN lines})}}} : TRUE

TableStep(L, i, blks) ==
    IF L[i].cls # "table" THEN L
    ELSE CHOOSE result \in
            {ValidateTable(L, i, blks, lines) :
                lines \in {LinesIn(blks, RectOf(L[i]))}} : TRUE

\* for i in range(len(page.layout_information)): the range is fixed when the
\* loop starts, n being the length of the list at that time.
RECURSIVE CleanTablesLoop(_, _, _, _)
CleanTablesLoop(L, i, n, blks) ==
    IF i > n THEN L
    ELSE CHOOSE result \in
            {CleanTablesLoop(nxt, i + 1, n, blks) :
                nxt \in {TableStep(L, i, blks)}} : TRUE

clean_tables(boxes, blks) == CleanTablesLoop(boxes, 1, Len(boxes), blks)

---------------------------------------------------------------------------
(* Serialization: helpers/document_layout.py.  A string is a sequence of   *)
(* one-character strings.  The spans of a document live in a heap          *)
(* (identity -> span dictionary) and a text line holds a list of span      *)
(* identities, so that the aliasing of Python's lists and dictionaries is  *)
(* kept: two lines may hold the same span object.                          *)

WhiteChars == {" ", "\n"}
\* One code point of the Unicode Private Use Area (0xE000 .. 0xF8FF).
PuaChars == {"<U+E000>"}
\* The members of utils.BULLETS among the characters used here.
BULLETS == {"*", "-", ">", "o", "<U+2022>"}
Digits == {"0", "1", "2", "3", "4", "5", "6", "7", "8", "9"}

EndsWith(s, t) == Len(s) >= Len(t) /\ SubSeq(s, Len(s) - Len(t) + 1, Len(s)) = t
DropLast(s, n) == SubSeq(s, 1, Len(s) - n)

\* The positions of s that hold a character other than white space.
Inked(s) == {i \in DOMAIN s : s[i] \notin WhiteChars}
LStrip(s) == IF Inked(s) = {} THEN <<>> ELSE SubSeq(s, SetMin(Inked(s)), Len(s))
RStrip(s) == IF Inked(s) = {} THEN <<>> ELSE SubSeq(s, 1, SetMax(Inked(s)))
Strip(s) ==
    IF Inked(s) = {} THEN <<>> ELSE SubSeq(s, SetMin(Inked(s)), SetMax(Inked(s)))

\* len(s.split()[-1]) for a string with at least one word: from the last
\* inked character back to the white space before it.
LastWordLen(s) ==
    LET last == SetMax(Inked(s))
    IN  last - SetMax({0} \cup {i \in 1..last : s[i] \in WhiteChars})

\* s.split(" ")[0]
FirstWord(s) ==
    SubSeq(s, 1, SetMin({Len(s) + 1} \cup {i \in DOMAIN s : s[i] = " "}) - 1)

\* str.isdigit()
IsDigit(s) == s # <<>> /\ \A i \in DOMAIN s : s[i] \in Digits

\* s * n
Repeat(s, n) == [i \in 1..(n * Len(s)) |-> s[((i - 1) % Len(s)) + 1]]

omit_if_pua_char(text) ==
    IF Len(text) # 1 THEN text
    ELSE IF text[1] \in PuaChars THEN <<>> ELSE text

startswith_bullet(text) ==
    /\ text # <<>>
    /\ text[1] \in BULLETS
    /\ (Len(text) = 1 \/ text[2] = " ")

OCR_FONTNAME == "GlyphLessFont"

\* A span's flags and char_flags are the sets of the bits that are set.
StylePrefix(s) ==
    (IF 1 \in s.char_flags THEN <<"~", "~">> ELSE <<>>)
    \o (IF 2 \in s.flags THEN <<"_">> ELSE <<>>)
    \o (IF 16 \in s.flags \/ 8 \in s.char_flags THEN <<"*", "*">> ELSE <<>>)
    \o (IF 8 \in s.flags /\ s.font # OCR_FONTNAME THEN <<"<U+0060>">> ELSE <<>>)

Reversed(s) == [i \in 1..Len(s) |-> s[Len(s) - i + 1]]

\* One round of the loop of get_styled_text: the output after span s, given
\* the output before it and old = (old_block, old_line).
StyledStep(s, output, old) ==
    LET prefix == StylePrefix(s)
        suffix == Reversed(prefix)
        span_text == Strip(s.text)
        joins == EndsWith(output, suffix \o <<" ">>)
        cut == IF joins THEN DropLast(output, Len(suffix) + 1) ELSE output
        hyphen == /\ joins
                  /\ old # <<s.block, s.line>>
                  /\ EndsWith(cut, <<"-">>)
                  /\ LastWordLen(cut) > 2
        text == IF ~joins THEN prefix \o span_text \o suffix \o <<" ">>
                ELSE IF hyphen \/ 1 \in s.flags
                     THEN span_text \o suffix \o <<" ">>
                     ELSE <<" ">> \o span_text \o suffix \o <<" ">>
    IN  (IF hyphen THEN DropLast(cut, 1) ELSE cut) \o text

\* The loop of get_styled_text from span i on.  (The value of a round is
\* bound by enumerating a one-element set, so that it is computed once.)
RECURSIVE StyledLoop(_, _, _, _)
StyledLoop(spans, i, output, old) ==
    IF i > Len(spans) THEN output
    ELSE CHOOSE result \in
            {StyledLoop(spans, i + 1, o, <<spans[i].block, spans[i].line>>) :
                o \in {StyledStep(spans[i], output, old)}} : TRUE

\* The text get_styled_text returns (its second result, the suffix, is not
\* used by any caller).
get_styled_text(spans) == StyledLoop(spans, 1, <<>>, <<0, 0>>)

\* One round of the loop of get_plain_text, for the span at position i.
PlainStep(s, i, output) ==
    LET superscript == 1 \in s.flags
        span_text == IF superscript /\ i = 1
                     THEN <<"[">> \o Strip(s.text) \o <<"]", " ">>
                     ELSE Strip(s.text)
        o1 == IF superscript /\ i # 1 /\ EndsWith(output, <<" ">>)
              THEN DropLast(output, 1) ELSE output
        o2 == IF EndsWith(o1, <<"-", " ">>) /\ LastWordLen(o1) > 2
              THEN DropLast(o1, 2) ELSE o1
    IN  o2 \o span_text \o <<" ">>

RECURSIVE PlainLoop(_, _, _)
PlainLoop(spans, i, output) ==
    IF i > Len(spans) THEN output
    ELSE CHOOSE result \in
            {PlainLoop(spans, i + 1, o) : o \in {PlainStep(spans[i], i, output)}} : TRUE

get_plain_text(spans) == PlainLoop(spans, 1, <<>>)

\* The span dictionaries a list of span identities stands for.
Spans(heap, ids) == [k \in 1..Len(ids) |-> heap[ids[k]]]

is_monospaced(textlines, heap) ==
    \A l \in DOMAIN textlines :
        \A k \in DOMAIN textlines[l].spans :
            LET s == heap[textlines[l].spans[k]]
            IN  8 \in s.flags /\ s.font # OCR_FONTNAME

is_superscripted(line, heap) ==
    IF line.spans = <<>> THEN FALSE
    ELSE IF 1 \in heap[line.spans[1]].flags THEN TRUE
    ELSE IF Len(line.spans) < 2 THEN FALSE
    ELSE /\ heap[line.spans[1]].origin_y < heap[line.spans[2]].origin_y
         /\ heap[line.spans[1]].size < heap[line.spans[2]].size

\* What a box serializer leaves behind: the string it returns (or the
\* exception it ends with) and the text lines and spans as they are then.
Served(output, textlines, heap) ==
    [raised |-> FALSE, output |-> output, textlines |-> textlines, heap |-> heap]
Failed(textlines, heap) ==
    [raised |-> TRUE, output |-> <<>>, textlines |-> textlines, heap |-> heap]

\* get_styled_text for markdown, get_plain_text for plain text.
LineText(md, spans) == IF md THEN get_styled_text(spans) ELSE get_plain_text(spans)

\* A box serializer on its way through the lines: the text lines and spans
\* as they are now, the line whose span list the Python variable spans is
\* bound to (cur), the left edge to compare with (x0) and the output.
Going(textlines, heap, cur, x0, output) ==
    [raised |-> FALSE, textlines |-> textlines, heap |-> heap, cur |-> cur,
     x0 |-> x0, output |-> output]

\* output + line_output, right-stripped for plain text.
Flushed(md, st) ==
    LET full == st.output \o LineText(md, Spans(st.heap, st.textlines[st.cur].spans))
    IN  IF md THEN full ELSE RStrip(full)

\* One round of the loop of list_item_to_md / list_item_to_text, for line j.
\* Extending or popping spans changes the line of the document it is bound
\* to.
ListItemStep(md, st, j, lead) ==
    LET this_x0 == st.textlines[j].x0
    IN  IF this_x0 < st.x0 - 2
        THEN IF st.textlines[j].spans = <<>> THEN Failed(st.textlines, st.heap)
             ELSE LET pua == omit_if_pua_char(
                               Strip(st.heap[st.textlines[j].spans[1]].text)) = <<>>
                  IN  Going(IF pua THEN [st.textlines EXCEPT ![j].spans = Tail(@)]
                            ELSE st.textlines,
                            st.heap, j, this_x0,
                            Flushed(md, st) \o <<"\n", "\n">> \o lead)
        ELSE Going([st.textlines EXCEPT ![st.cur].spans = @ \o st.textlines[j].spans],
                   st.heap, st.cur, this_x0, st.output)

RECURSIVE ListItemLoop(_, _, _, _)
ListItemLoop(md, st, j, lead) ==
    IF st.raised THEN st
    ELSE IF j > Len(st.textlines)
         THEN Served(Flushed(md, st) \o <<"\n", "\n">>, st.textlines, st.heap)
    ELSE CHOOSE result \in
            {ListItemLoop(md, nxt, j + 1, lead) :
                nxt \in {ListItemStep(md, st, j, lead)}} : TRUE

\* The starter of list_item_to_md: "- " unless the item starts with a number
\* and a dot.
Starter(span0_text) ==
    IF startswith_bullet(span0_text) THEN <<"-", " ">>
    ELSE IF EndsWith(span0_text, <<".">>) /\ IsDigit(DropLast(span0_text, 1)) THEN <<>>
    ELSE IF /\ \E k \in DOMAIN span0_text : span0_text[k] = " "
            /\ EndsWith(FirstWord(span0_text), <<".">>)
            /\ IsDigit(DropLast(FirstWord(span0_text), 1))
         THEN <<>>
    ELSE <<"-", " ">>

\* list_item_to_md up to its loop: the bullet is cut off the first span's
\* text, a first span that is (then) empty or a private-use character is
\* popped off the line.
ListItemMdHead(textlines, heap, level) ==
    LET indent == Repeat(<<" ", " ", " ">>, level - 1)
        id0 == textlines[1].spans[1]
        span0_text == Strip(heap[id0].text)
        heap1 == IF startswith_bullet(span0_text)
                 THEN [heap EXCEPT ![id0].text = Strip(Tail(span0_text))]
                 ELSE heap
        pua == omit_if_pua_char(Strip(heap1[id0].text)) = <<>>
        popped == IF pua THEN [textlines EXCEPT ![1].spans = Tail(@)]
                  ELSE textlines
        x0 == IF pua /\ popped[1].spans # <<>>
              THEN heap1[popped[1].spans[1]].x0 ELSE textlines[1].x0
    IN  [st |-> Going(popped, heap1, 1, x0, indent \o Starter(span0_text)),
         lead |-> indent \o Starter(span0_text)]

list_item_to_md(textlines, heap, level) ==
    IF textlines = <<>> THEN Served(<<>>, textlines, heap)
    ELSE IF textlines[1].spans = <<>> THEN Failed(textlines, heap)
    ELSE CHOOSE result \in
            {ListItemLoop(TRUE, h.st, 2, h.lead) :
                h \in {ListItemMdHead(textlines, heap, level)}} : TRUE

ListItemTextHead(textlines, heap, level) ==
    LET indent == Repeat(<<" ", " ", " ">>, level - 1)
        pua == omit_if_pua_char(Strip(heap[textlines[1].spans[1]].text)) = <<>>
        popped == IF pua THEN [textlines EXCEPT ![1].spans = Tail(@)]
                  ELSE textlines
        x0 == IF pua /\ popped[1].spans # <<>>
              THEN heap[popped[1].spans[1]].x0 ELSE textlines[1].x0
    IN  [st |-> Going(popped, heap, 1, x0, indent), lead |-> indent]

list_item_to_text(textlines, heap, level) ==
    IF textlines = <<>> THEN Served(<<>>, textlines, heap)
    ELSE IF textlines[1].spans = <<>> THEN Failed(textlines, heap)
    ELSE CHOOSE result \in
            {ListItemLoop(FALSE, h.st, 2, h.lead) :
                h \in {ListItemTextHead(textlines, heap, level)}} : TRUE

\* One round of the loop of footnote_to_md / footnote_to_text, for line j.
FootnoteStep(md, st, j) ==
    IF is_superscripted(st.textlines[j], st.heap)
    THEN Going(st.textlines, st.heap, j, 0,
               Flushed(md, st) \o <<"\n", "\n", ">", " ">>)
    ELSE Going([st.textlines EXCEPT ![st.cur].spans = @ \o st.textlines[j].spans],
               st.heap, st.cur, 0, st.output)

RECURSIVE FootnoteLoop(_, _, _)
FootnoteLoop(md, st, j) ==
    IF j > Len(st.textlines)
    THEN Served(Flushed(md, st) \o <<"\n", "\n">>, st.textlines, st.heap)
    ELSE CHOOSE result \in
            {FootnoteLoop(md, nxt, j + 1) : nxt \in {FootnoteStep(md, st, j)}} : TRUE

footnote_to_md(textlines, heap) ==
    IF textlines = <<>> THEN Served(<<>>, textlines, heap)
    ELSE FootnoteLoop(TRUE, Going(textlines, heap, 1, 0, <<">", " ">>), 2)

footnote_to_text(textlines, heap) ==
    IF textlines = <<>> THEN Served(<<>>, textlines, heap)
    ELSE FootnoteLoop(FALSE, Going(textlines, heap, 1, 0, <<">", " ">>), 2)

\* The raw span texts of a line, joined and right-stripped, with a newline.
CodeLine(line, heap) ==
    RStrip(Concat([k \in DOMAIN line.spans |-> heap[line.spans[k]].text])) \o <<"\n">>

code_block_to_md(textlines, heap) ==
    <<"<U+0060>", "<U+0060>", "<U+0060>", "\n">>
    \o Concat([l \in DOMAIN textlines |-> CodeLine(textlines[l], heap)])
    \o <<"<U+0060>", "<U+0060>", "<U+0060>", "\n", "\n">>

code_block_to_text(textlines, heap) ==
    Concat([l \in DOMAIN textlines |-> CodeLine(textlines[l], heap)]) \o <<"\n", "\n">>

\* All spans of all lines, as text_to_md / text_to_text collect them.
AllSpans(textlines, heap) ==
    Concat([l \in DOMAIN textlines |-> Spans(heap, textlines[l].spans)])

text_to_md(textlines, heap, ignore_code) ==
    IF textlines = <<>> THEN Served(<<>>, textlines, heap)
    ELSE IF is_superscripted(textlines[1], heap) THEN footnote_to_md(textlines, heap)
    ELSE IF ~ignore_code /\ is_monospaced(textlines, heap)
         THEN Served(code_block_to_md(textlines, heap), textlines, heap)
    ELSE Served(get_styled_text(AllSpans(textlines, heap)) \o <<"\n", "\n">>,
                textlines, heap)

text_to_text(textlines, heap, ignore_code) ==
    IF textlines = <<>> THEN Served(<<>>, textlines, heap)
    ELSE IF is_superscripted(textlines[1], heap) THEN footnote_to_text(textlines, heap)
    ELSE IF ~ignore_code /\ is_monospaced(textlines, heap)
         THEN Served(code_block_to_text(textlines, heap), textlines, heap)
    ELSE Served(get_plain_text(AllSpans(textlines, heap)) \o <<"\n", "\n">>,
                textlines, heap)

\* create_list_item_levels: the segments of contiguous list-items (as lists
\* of box numbers) ...
RECURSIVE SegmentLoop(_, _, _, _)
SegmentLoop(boxes, i, segments, segment) ==
    LET closed == IF segment # <<>> THEN Append(segments, segment) ELSE segments
    IN  IF i > Len(boxes) THEN closed
        ELSE IF boxes[i].boxclass # "list-item"
             THEN SegmentLoop(boxes, i + 1, closed, <<>>)
        ELSE IF /\ segment # <<>>
                /\ \/ boxes[i].x0 > boxes[segment[Len(segment)]].x1
                   \/ boxes[i].y1 < boxes[segment[Len(segment)]].y0
             THEN SegmentLoop(boxes, i + 1, closed, <<i>>)
        ELSE SegmentLoop(boxes, i + 1, segments, Append(segment, i))

\* "x0 coordinate increased by more than 10 points: increase level"
LevelUpFromTen(prev_bbox, bbox) == bbox.x0 >= prev_bbox.x0 + 10

LevelUp(prev_bbox, bbox) == bbox.x0 > prev_bbox.x0 + 10

\* ... and the level of box number i: within its segment sorted by x0, the
\* level goes up by one at every item that starts more than 10 units right
\* of the item before it.
create_list_item_levels(boxes) ==
    LET segments == SegmentLoop(boxes, 1, <<>>, <<>>)
        Sorted(seg) == SortedByKey(seg, [k \in DOMAIN seg |-> boxes[seg[k]].x0])
        Level(srt, pos) ==
            1 + Cardinality({k \in 2..pos :
                                LevelUp(boxes[srt[k - 1]], boxes[srt[k]])})
    IN  [i \in {j \in DOMAIN boxes : boxes[j].boxclass = "list-item"} |->
            LET seg == segments[CHOOSE n \in DOMAIN segments : i \in Range(segments[n])]
                srt == Sorted(seg)
            IN  Level(srt, CHOOSE pos \in DOMAIN srt : srt[pos] = i)]

\* What the box loop of to_markdown (md) / to_text calls for box i.
SerializeBox(md, doc, levels, i) ==
    LET box == doc.boxes[i]
    IN  IF box.boxclass = "list-item"
        THEN IF md THEN list_item_to_md(box.textlines, doc.heap, levels[i])
             ELSE list_item_to_text(box.textlines, doc.heap, levels[i])
        ELSE IF box.boxclass = "footnote"
        THEN IF md THEN footnote_to_md(box.textlines, doc.heap)
             ELSE footnote_to_text(box.textlines, doc.heap)
        ELSE IF md THEN text_to_md(box.textlines, doc.heap, doc.full_ocred)
             ELSE text_to_text(box.textlines, doc.heap, doc.full_ocred)

\* The box loop of to_markdown (md) / to_text over the page, from box i on,
\* for boxes of the text classes: the string so far and the document as the
\* box serializers leave it.
RECURSIVE SerializeLoop(_, _, _, _, _)
SerializeLoop(md, doc, levels, i, output) ==
    IF i > Len(doc.boxes)
    THEN [raised |-> FALSE, output |-> output, document |-> doc]
    ELSE CHOOSE result \in
            {IF r.raised
             THEN [raised |-> TRUE, output |-> <<>>,
                   document |-> [doc EXCEPT !.heap = r.heap,
                                            !.boxes[i].textlines = r.textlines]]
             ELSE SerializeLoop(md,
                                [doc EXCEPT !.heap = r.heap,
                                            !.boxes[i].textlines = r.textlines],
                                levels, i + 1, output \o r.output) :
                r \in {SerializeBox(md, doc, levels, i)}} : TRUE

\* ParsedDocument.to_markdown() with its default arguments, one page.
to_markdown(doc) ==
    SerializeLoop(TRUE, doc, create_list_item_levels(doc.boxes), 1, <<>>)

\* ParsedDocument.to_text() with its default arguments, one page.
to_text(doc) ==
    SerializeLoop(FALSE, doc, create_list_item_levels(doc.boxes), 1, <<>>)

---------------------------------------------------------------------------
(* Specification Spec: find_reading_order applied to a page's box list.    *)
(* The list is built box by box from BoxChoices (any order, repeats        *)
(* allowed, at most MaxBoxes boxes).  Neither the layout classifier nor    *)
(* table_cleaner (which cuts a table box at tilted.y1 + 1) puts a lower    *)
(* limit on a box's extent, so boxes of zero width or height are among     *)
(* the choices.                                                            *)

MaxBoxes == 3

XSpans == {<<0, 10>>, <<14, 24>>, <<0, 24>>, <<5, 5>>}
YSpans == {<<0, 10>>, <<30, 40>>, <<0, 40>>}

BoxChoices ==
    {Box(xs[1], ys[1], xs[2], ys[2], "text") : xs \in XSpans, ys \in YSpans}
    \cup {Box(0, 20, 24, 20, "text"),
          Box(0, 30, 24, 40, "page-header"), Box(0, 0, 10, 10, "page-header"),
          Box(0, 0, 24, 10, "page-footer"), Box(14, 30, 24, 40, "page-footer")}

VectorBlock(r) == [type |-> 3, bbox |-> r, isrect |-> FALSE, lines |-> <<>>]

\* The content blocks of the page: none, or two page-high vector graphics.
RoBlockChoices ==
    {<<>>, <<VectorBlock(Rect(0, 0, 24, 40)), VectorBlock(Rect(0, 0, 24, 40))>>}

Init ==
    /\ pc = "input"
    /\ layout_information = <<>>
    /\ blocks \in RoBlockChoices
    /\ out = None
    /\ document = None

\* The layout classifier reports one more box.
AddBox ==
    /\ pc = "input"
    /\ Len(layout_information) < MaxBoxes
    /\ \E b \in BoxChoices : layout_information' = Append(layout_information, b)
    /\ UNCHANGED <<pc, blocks, out, document>>

\* What find_reading_order computes on the way: the filtered list, the
\* stripes of the body with their y_values, and the list it returns (or
\* the exception it ends with).
ReadingOrderRun(blks, boxes) ==
    LET filtered == filter_contained(boxes)
        body == body_boxes(filtered)
        joined == joined_boxes(body)
        raised == ReadingOrderRaises(blks, boxes)
        clustered == ~raised /\ ~bbox_is_empty(joined)
        vectors == ReadingVectors(blks, body)
    IN  [raised |-> raised,
         filtered |-> filtered,
         stripes |-> IF clustered THEN cluster_stripes(body, joined, vectors)
                     ELSE <<>>,
         y_values |-> IF clustered /\ ~is_multi_column_layout(body)
                      THEN YValues(body, joined, vectors) ELSE {},
         final |-> IF raised THEN <<>> ELSE find_reading_order(blks, boxes)]

\* find_reading_order(page.rect, blocks, page.layout_information).
FindReadingOrder ==
    /\ pc = "input"
    /\ pc' = "done"
    /\ out' = ReadingOrderRun(blocks, layout_information)
    /\ UNCHANGED <<layout_information, blocks, document>>

Next == AddBox \/ FindReadingOrder

Spec == Init /\ [][Next]_vars

Returned == pc = "done" /\ ~out.raised
Area(b) == (b.x1 - b.x0) * (b.y1 - b.y0)

C2_NoNestedPair ==
    pc = "done" =>
        \A i, j \in DOMAIN out.filtered :
            i # j => ~bbox_in_bbox(out.filtered[i], out.filtered[j])

\* The divider position at the top of stripe t: the largest y_value that
\* lies above every bottom edge of the stripe.
TopDivider(t) ==
    SetMax({y \in out.y_values :
                \A k \in DOMAIN out.stripes[t] : y < out.stripes[t][k].y1})

\* C3 as stated: for boxes A, B of different stripes, A's stripe first, A's
\* bottom edge is <= the divider at the top of B's stripe and B's top edge
\* is >= that divider.
C3_StripeMonotone ==
    Returned =>
        \A s, t \in DOMAIN out.stripes :
            s < t =>
                \A a \in DOMAIN out.stripes[s], b \in DOMAIN out.stripes[t] :
                    /\ out.stripes[s][a].y1 <= TopDivider(t)
                    /\ out.stripes[t][b].y0 >= TopDivider(t)

\* C4: in the returned list every page-header precedes every body box and
\* every body box precedes every page-footer, and headers among themselves
\* and footers among themselves are in (top, left) order.
GroupOf(b) ==
    IF b.cls = "page-header" THEN 1 ELSE IF b.cls = "page-footer" THEN 3 ELSE 2
TopLeftLeq(a, b) == a.y0 < b.y0 \/ (a.y0 = b.y0 /\ a.x0 <= b.x0)
C4_HeadersBodyFooters ==
    Returned =>
        \A i, j \in DOMAIN out.final :
            i < j =>
                /\ GroupOf(out.final[i]) <= GroupOf(out.final[j])
                /\ (GroupOf(out.final[i]) = GroupOf(out.final[j])
                    /\ GroupOf(out.final[i]) # 2)
                   => TopLeftLeq(out.final[i], out.final[j])

\* A page whose header lies below its body box and whose footer lies above
\* it, listed footer first and header last.
C4_Witness ==
    /\ Returned
    /\ Len(out.final) = 3
    /\ layout_information[1].cls = "page-footer"
    /\ layout_information[3].cls = "page-header"
    /\ out.final[1].cls = "page-header"
    /\ out.final[2].cls = "text"
    /\ out.final[3].cls = "page-footer"
    /\ out.final[1].y0 > out.final[2].y0
    /\ out.final[3].y0 < out.final[1].y0

---------------------------------------------------------------------------
(* Specification SpecSerialize: a parsed one-page document of text boxes   *)
(* (classes text, list-item, footnote) is built box by box and then        *)
(* serialized up to MaxCalls times, by to_markdown or to_text in any mix.  *)

MaxDocBoxes == 2
MaxCalls == 2

\* A span as text extraction delivers it.
SpanOf(text, flags) ==
    [text |-> text, flags |-> flags, char_flags |-> {}, font |-> "Helvetica",
     block |-> 0, line |-> 0, x0 |-> 0, origin_y |-> 0, size |-> 10]

\* The first line of a box, with its left edge and its spans: a private-use
\* bullet and a word; the bullet alone; a bullet character and a number; a
\* superscript mark and a bold word.
LineChoices ==
    {[x0 |-> 10, spans |-> <<SpanOf(<<"<U+E000>">>, {}), SpanOf(<<"a", "b">>, {})>>],
     [x0 |-> 10, spans |-> <<SpanOf(<<"<U+E000>">>, {})>>],
     [x0 |-> 0, spans |-> <<SpanOf(<<"<U+2022>", " ", "1", ".">>, {})>>],
     [x0 |-> 12, spans |-> <<SpanOf(<<"1">>, {1}), SpanOf(<<"c", "d">>, {16})>>]}

\* The second line, if there is one: a plain continuation, or a line that
\* starts further left with a private-use bullet.
SecondLineChoices ==
    {[x0 |-> 12, spans |-> <<SpanOf(<<"d", "e">>, {})>>],
     [x0 |-> 0, spans |-> <<SpanOf(<<"<U+E000>">>, {}), SpanOf(<<"f">>, {})>>]}

TextClasses == {"text", "list-item", "footnote"}

\* The document after extraction has added a box of class cls made of the
\* given lines: every span is a new object of the heap, tagged with its
\* block and line number and placed along its line.
WithBox(doc, cls, lines) ==
    LET n == Len(doc.boxes) + 1
        first(l) == Len(doc.heap)
                    + Len(Concat([m \in 1..(l - 1) |-> lines[m].spans]))
        fresh == Concat([l \in DOMAIN lines |->
                    [k \in DOMAIN lines[l].spans |->
                        [lines[l].spans[k] EXCEPT
                            !.block = n, !.line = l - 1,
                            !.x0 = lines[l].x0 + 5 * (k - 1)]]])
    IN  [doc EXCEPT
            !.heap = @ \o fresh,
            !.boxes = Append(@,
                [boxclass |-> cls,
                 x0 |-> lines[1].x0, y0 |-> 20 * (n - 1),
                 x1 |-> 100, y1 |-> 20 * n,
                 textlines |-> [l \in DOMAIN lines |->
                    [x0 |-> lines[l].x0,
                     spans |-> [k \in DOMAIN lines[l].spans |-> first(l) + k]]]])]

InitSerialize ==
    /\ pc = "input"
    /\ layout_information = <<>>
    /\ blocks = <<>>
    /\ out = <<>>
    /\ document = [heap |-> <<>>, boxes |-> <<>>, full_ocred |-> FALSE]

\* Extraction adds a box of one or two lines to the page.
AddTextBox ==
    /\ pc = "input"
    /\ Len(document.boxes) < MaxDocBoxes
    /\ \E cls \in TextClasses, l1 \in LineChoices,
          l2 \in SecondLineChoices \cup {None} :
          document' = WithBox(document, cls,
                              IF l2 = None THEN <<l1>> ELSE <<l1, l2>>)
    /\ UNCHANGED <<pc, layout_information, blocks, out>>

\* The entry a serializer call leaves in the log.
Logged(call, r) == [call |-> call, raised |-> r.raised, output |-> r.output]

\* A serializer may be called on a parsed page, again and again.
CanSerialize ==
    /\ pc \in {"input", "serialized"}
    /\ document.boxes # <<>>
    /\ Len(out) < MaxCalls

\* document.to_markdown(): the result is logged, and document is what the
\* call leaves of the ParsedDocument.
ToMarkdown ==
    /\ CanSerialize
    /\ pc' = "serialized"
    /\ \E r \in {to_markdown(document)} :
          /\ out' = Append(out, Logged("to_markdown", r))
          /\ document' = r.document
    /\ UNCHANGED <<layout_information, blocks>>

\* document.to_text()
ToText ==
    /\ CanSerialize
    /\ pc' = "serialized"
    /\ \E r \in {to_text(document)} :
          /\ out' = Append(out, Logged("to_text", r))
          /\ document' = r.document
    /\ UNCHANGED <<layout_information, blocks>>

NextSerialize == AddTextBox \/ ToMarkdown \/ ToText

SpecSerialize == InitSerialize /\ [][NextSerialize]_vars

\* C5 as stated: a serializer call leaves the document (every box's
\* textlines and spans) as it found it, and every call of to_markdown
\* returns what the first to_markdown call returned, likewise for to_text.
C5_SerializationLeavesDocument ==
    /\ [][pc' = "serialized" => document' = document]_vars
    /\ [](pc = "serialized" =>
            \A i, j \in DOMAIN out :
                out[i].call = out[j].call => out[i] = out[j])

---------------------------------------------------------------------------
(* Box repair of one page, as parse_document runs it: clean_pictures, then *)
(* add_image_orphans; the repair may then be run once more on its result.  *)

MaxRepairBoxes == 2
MaxBlocks == 3

\* Boxes the layout classifier may report on the repair page.
RepairBoxChoices ==
    {Box(0, 0, 40, 40, "picture"), Box(80, 0, 120, 40, "picture"),
     Box(80, 0, 120, 40, "table"), Box(130, 0, 200, 40, "text")}

TextBlock(r) == [type |-> 0, bbox |-> r, isrect |-> FALSE, lines |-> <<>>]
ImageBlock(r) == [type |-> 1, bbox |-> r, isrect |-> FALSE, lines |-> <<>>]

\* Content primitives of the repair page: three text blocks, an image, a
\* vector graphic and a vector graphic with an empty bbox.
RepairBlockChoices ==
    {TextBlock(Rect(20, 0, 72, 40)), TextBlock(Rect(56, 0, 100, 40)),
     TextBlock(Rect(60, 0, 68, 40)), ImageBlock(Rect(140, 0, 180, 40)),
     VectorBlock(Rect(200, 0, 236, 40)), VectorBlock(Rect(40, 20, 40, 20))}

InitRepair ==
    /\ pc = "input"
    /\ layout_information = <<>>
    /\ blocks = <<>>
    /\ out = None
    /\ document = None

\* The layout classifier reports one more box.
AddLayoutBox ==
    /\ pc = "input"
    /\ Len(layout_information) < MaxRepairBoxes
    /\ \E b \in RepairBoxChoices :
          layout_information' = Append(layout_information, b)
    /\ UNCHANGED <<pc, blocks, out, document>>

\* Text extraction reports one more content block.
AddBlock ==
    /\ pc = "input"
    /\ Len(blocks) < MaxBlocks
    /\ \E b \in RepairBlockChoices : blocks' = Append(blocks, b)
    /\ UNCHANGED <<pc, layout_information, out, document>>

\* utils.clean_pictures(page, blocks), in the first or in the second run of
\* the repair; out keeps the list the first run started from.
CleanPictures ==
    /\ pc \in {"input", "repaired"}
    /\ pc' = IF pc = "input" THEN "extended" ELSE "extended_again"
    /\ \E r \in {clean_pictures(layout_information, blocks)} :
          layout_information' = r
    /\ out' = IF pc = "input"
              THEN [input |-> layout_information, first |-> <<>>]
              ELSE out
    /\ UNCHANGED <<blocks, document>>

\* utils.add_image_orphans(page, blocks), in the first or in the second run
\* of the repair; out keeps the result of the first run.
AddImageOrphans ==
    /\ pc \in {"extended", "extended_again"}
    /\ pc' = IF pc = "extended" THEN "repaired" ELSE "repaired_again"
    /\ \E r \in {add_image_orphans(layout_information, blocks)} :
          /\ layout_information' = r
          /\ out' = IF pc = "extended" THEN [out EXCEPT !.first = r] ELSE out
    /\ UNCHANGED <<blocks, document>>

NextRepair == AddLayoutBox \/ AddBlock \/ CleanPictures \/ AddImageOrphans

SpecRepair == InitRepair /\ [][NextRepair]_vars

\* C6 as stated: a second run of the box repair (clean_pictures, then
\* add_image_orphans) on the result of the first run leaves the box list as
\* the first run left it.
C6_RepairIdempotent ==
    pc = "repaired_again" => layout_information = out.first

\* Block k lies inside the rectangle of box i of the list boxes.
Claims(boxes, i, k) == RectIn(BlockBBox(blocks[k]), RectOf(boxes[i]))

\* C7 as stated: after clean_pictures no text, image or vector primitive has
\* been absorbed into two different picture/formula/table boxes, that is, no
\* primitive that lay in neither of two such boxes lies inside the extended
\* rectangles of both.
C7_OneBoxClaimsPrimitive ==
    pc = "extended" =>
        \A k \in DOMAIN blocks : \A i, j \in DOMAIN layout_information :
            (/\ i # j
             /\ layout_information[i].cls \in {"picture", "formula", "table"}
             /\ layout_information[j].cls \in {"picture", "formula", "table"}
             /\ ~Claims(out.input, i, k)
             /\ ~Claims(out.input, j, k))
            => ~(Claims(layout_information, i, k) /\ Claims(layout_information, j, k))

---------------------------------------------------------------------------
(* Table validation of one page, as parse_document runs it on a page that  *)
(* is not fully OCRed and has a table box: clean_pictures,                 *)
(* add_image_orphans, then clean_tables.                                   *)

MaxTableBoxes == 2
MaxTableBlocks == 3

TableBoxChoices ==
    {Box(0, 0, 200, 40, "table"), Box(204, 0, 236, 40, "table"),
     Box(204, 0, 236, 40, "text")}

\* A text line with one span of the same rectangle.
LineOf(r) == [bbox |-> r, spans |-> <<r>>]

\* A text block of the given lines; its bbox is the union of the line boxes.
LinesBlock(lines) ==
    [type |-> 0,
     bbox |-> Rect(SetMin({lines[n].bbox.x0 : n \in DOMAIN lines}),
                   SetMin({lines[n].bbox.y0 : n \in DOMAIN lines}),
                   SetMax({lines[n].bbox.x1 : n \in DOMAIN lines}),
                   SetMax({lines[n].bbox.y1 : n \in DOMAIN lines})),
     isrect |-> FALSE,
     lines |-> lines]

RectBlock(r) == [type |-> 3, bbox |-> r, isrect |-> TRUE, lines |-> <<>>]

\* Content of the table page: a grid of three lines, two lines below each
\* other, one line, a grid in the right box, a flat tilted vector at the
\* top, the same as a rectangle, and a tilted vector over most of the box.
TableBlockChoices ==
    {LinesBlock(<<LineOf(Rect(0, 10, 80, 20)), LineOf(Rect(100, 10, 180, 20)),
                  LineOf(Rect(0, 24, 80, 34))>>),
     LinesBlock(<<LineOf(Rect(0, 10, 80, 20)), LineOf(Rect(0, 24, 80, 34))>>),
     LinesBlock(<<LineOf(Rect(0, 24, 80, 34))>>),
     LinesBlock(<<LineOf(Rect(206, 2, 216, 12)), LineOf(Rect(220, 2, 230, 12)),
                  LineOf(Rect(206, 20, 216, 30))>>),
     VectorBlock(Rect(0, 0, 160, 8)),
     RectBlock(Rect(0, 0, 160, 8)),
     VectorBlock(Rect(0, 0, 180, 36))}

\* The layout classifier reports one more box of the table page.
AddTablePageBox ==
    /\ pc = "input"
    /\ Len(layout_information) < MaxTableBoxes
    /\ \E b \in TableBoxChoices :
          layout_information' = Append(layout_information, b)
    /\ UNCHANGED <<pc, blocks, out, document>>

\* Text extraction reports one more content block of the table page.
AddTableBlock ==
    /\ pc = "input"
    /\ Len(blocks) < MaxTableBlocks
    /\ \E b \in TableBlockChoices : blocks' = Append(blocks, b)
    /\ UNCHANGED <<pc, layout_information, out, document>>

\* tables_exist, taken from the list the layout classifier reported.
tables_exist(boxes) == \E i \in DOMAIN boxes : boxes[i].cls = "table"

\* utils.clean_tables(page, blocks), after the repair of the boxes; out
\* keeps the list clean_tables started from.
CleanTables ==
    /\ pc = "repaired"
    /\ tables_exist(out.input)
    /\ pc' = "tables_cleaned"
    /\ \E r \in {clean_tables(layout_information, blocks)} :
          layout_information' = r
    /\ out' = [out EXCEPT !.first = layout_information]
    /\ UNCHANGED <<blocks, document>>

NextTables ==
    AddTablePageBox \/ AddTableBlock \/ CleanPictures \/ AddImageOrphans
        \/ CleanTables

SpecTables == InitRepair /\ [][NextTables]_vars

\* The bottoms of the text lines inside box b.
BaselinesIn(b) ==
    LET lines == LinesIn(blocks, RectOf(b))
    IN  [n \in DOMAIN lines |-> lines[n].bbox.y1]

\* C8 as stated: after clean_tables every box still classified 'table'
\* contains two text lines whose baselines are more than 3 apart and two
\* text lines on a shared baseline (no more than 3 apart), and every box
\* that was 'table' and contains no text line is 'table-fallback' and no
\* longer 'table'.
C8_EveryTableValidated ==
    pc = "tables_cleaned" =>
        /\ \A i \in DOMAIN layout_information :
              layout_information[i].cls = "table" =>
                  LET ys == BaselinesIn(layout_information[i])
                  IN  /\ \E m, n \in DOMAIN ys : ys[m] - ys[n] > 3
                      /\ \E m, n \in DOMAIN ys :
                            m # n /\ ys[m] - ys[n] <= 3 /\ ys[n] - ys[m] <= 3
        /\ \A i \in DOMAIN out.first :
              (out.first[i].cls = "table" /\ BaselinesIn(out.first[i]) = <<>>)
              => /\ \E j \in DOMAIN layout_information :
                        layout_information[j] =
                            [out.first[i] EXCEPT !.cls = "table-fallback"]
                 /\ \A j \in DOMAIN layout_information :
                        layout_information[j] # out.first[i]

---------------------------------------------------------------------------
(* Parsing one page: helpers/document_layout.py, parse_document from the   *)
(* box repair to the page's list of LayoutBox objects.  A table the table  *)
(* finder reports is a record [bbox, row_count, col_count, rows, external, *)
(* header], rows and header giving the number of cells of each row and of  *)
(* the header.  The page of this part holds text only, so                  *)
(* add_image_orphans finds nothing to add, on any page size.               *)

\* Lines 1058-1065: the repair of the boxes unless the page was fully
\* OCRed, then the reading order.
RepairedBoxes(boxes, blks, full_ocred) ==
    IF full_ocred THEN boxes
    ELSE CHOOSE result \in
            {IF tables_exist(boxes) THEN clean_tables(o, blks) ELSE o :
                o \in {add_image_orphans(e, blks) :
                          e \in {clean_pictures(boxes, blks)}}} : TRUE

\* pymupdf.table._iou(r1, r2) > 0.6
IouAbove60(r1, r2) ==
    LET ix == Max(0, Min(r1.x1, r2.x1) - Max(r1.x0, r2.x0))
        iy == Max(0, Min(r1.y1, r2.y1) - Max(r1.y0, r2.y0))
        area1 == (r1.x1 - r1.x0) * (r1.y1 - r1.y0)
        area2 == (r2.x1 - r2.x0) * (r2.y1 - r2.y0)
    IN  /\ ix * iy # 0
        /\ 10 * (ix * iy) > 6 * (area1 + area2 - ix * iy)

\* get_raw_lines(blocks=pagelayout.fulltext, clip=clip): the lines of the
\* page's text inside clip, each with its spans.
get_raw_lines(blks, clip) == LinesIn(blks, clip)

\* [tab for tab in tbf.tables if _iou(tab.bbox, clip) > 0.6]; with tbf = None
\* the attribute access raises.
Candidates(tbf, clip) ==
    IF tbf = None THEN <<>>
    ELSE Keep(tbf.tables,
              {k \in DOMAIN tbf.tables : IouAbove60(tbf.tables[k].bbox, clip)})

\* layoutbox.table as line 1159 sets it: the header row is put first when
\* it lies outside the table.
TableDict(table) ==
    [bbox |-> table.bbox,
     row_count |-> IF table.external THEN table.row_count + 1
                   ELSE table.row_count,
     col_count |-> table.col_count,
     cells |-> IF table.external THEN <<table.header>> \o table.rows
               ELSE table.rows]

\* utils.table_extract and utils.table_to_markdown fill a grid of row_count
\* rows and col_count columns from the rows of cells: a row or a cell
\* beyond the grid raises IndexError, as does the header row of an empty
\* grid in table_to_markdown.
TableExtractRaises(t) ==
    \/ Len(t.cells) > t.row_count
    \/ \E r \in DOMAIN t.cells : t.cells[r] > t.col_count
TableToMarkdownRaises(t) == TableExtractRaises(t) \/ t.row_count = 0

\* The except branch, lines 1181-1210: the box becomes 'table-fallback', and
\* 'text' if it has text lines but only one, or no line with two spans.
TableFallback(box, table, textlines) ==
    [x0 |-> box.x0, y0 |-> box.y0, x1 |-> box.x1, y1 |-> box.y1,
     boxclass |-> IF /\ textlines # <<>>
                     /\ \/ Len(textlines) = 1
                        \/ \A n \in DOMAIN textlines : Len(textlines[n].spans) < 2
                  THEN "text" ELSE "table-fallback",
     table |-> table,
     textlines |-> textlines]

\* The try block, lines 1147-1177, for a box of class 'table'.
TableBox(box, tbf, blks) ==
    LET clip == RectOf(box)
        found == Candidates(tbf, clip)
        t == TableDict(found[1])
    IN  IF found = <<>>
        THEN TableFallback(box, None, get_raw_lines(blks, clip))
        ELSE IF TableExtractRaises(t)
        THEN TableFallback(box, t, get_raw_lines(blks, clip))
        ELSE IF TableToMarkdownRaises(t)
        THEN TableFallback(box, t @@ [extract |-> "cell texts"],
                           get_raw_lines(blks, clip))
        ELSE [x0 |-> box.x0, y0 |-> box.y0, x1 |-> box.x1, y1 |-> box.y1,
              boxclass |-> "table",
              table |-> t @@ [extract |-> "cell texts", markdown |-> "grid"],
              textlines |-> None]

\* One round of the loop over page.layout_information, lines 1104-1224,
\* with images neither embedded nor written and force_text off.
LayoutBoxOf(box, tbf, blks) ==
    IF box.cls \in {"picture", "formula"}
    THEN [x0 |-> box.x0, y0 |-> box.y0, x1 |-> box.x1, y1 |-> box.y1,
          boxclass |-> box.cls, table |-> None, textlines |-> None]
    ELSE IF box.cls = "table" THEN TableBox(box, tbf, blks)
    ELSE [x0 |-> box.x0, y0 |-> box.y0, x1 |-> box.x1, y1 |-> box.y1,
          boxclass |-> box.cls, table |-> None,
          textlines |-> get_raw_lines(blks, RectOf(box))]

MaxParseBoxes == 2
MaxParseBlocks == 2
MaxFound == 2

\* Boxes the layout classifier may report on the parsed page (24 x 800).
ParseBoxChoices ==
    {Box(0, 0, 24, 100, "table"), Box(0, 200, 24, 300, "table"),
     Box(0, 400, 24, 500, "text")}

\* Text of the parsed page: in the upper table box, two lines side by side
\* above a line of two spans, or above a line of one span; in the lower
\* table box, a single line.
ParseBlockChoices ==
    {LinesBlock(<<LineOf(Rect(0, 10, 10, 20)), LineOf(Rect(14, 10, 24, 20)),
                  [bbox |-> Rect(0, 30, 24, 40),
                   spans |-> <<Rect(0, 30, 10, 40), Rect(14, 30, 24, 40)>>]>>),
     LinesBlock(<<LineOf(Rect(0, 10, 10, 20)), LineOf(Rect(14, 10, 24, 20)),
                  LineOf(Rect(0, 30, 10, 40))>>),
     LinesBlock(<<LineOf(Rect(0, 210, 24, 220))>>)}

\* Tables the table finder may report: the upper box as a 2 x 2 grid, the
\* same with an outside header of three cells, a table over the upper half
\* of the upper box only, and the lower box as a 2 x 2 grid.
FoundTableChoices ==
    {[bbox |-> Rect(0, 0, 24, 100), row_count |-> 2, col_count |-> 2,
      rows |-> <<2, 2>>, external |-> FALSE, header |-> 2],
     [bbox |-> Rect(0, 0, 24, 100), row_count |-> 2, col_count |-> 2,
      rows |-> <<2, 2>>, external |-> TRUE, header |-> 3],
     [bbox |-> Rect(0, 0, 24, 50), row_count |-> 2, col_count |-> 2,
      rows |-> <<2, 2>>, external |-> FALSE, header |-> 2],
     [bbox |-> Rect(0, 200, 24, 300), row_count |-> 2, col_count |-> 2,
      rows |-> <<2, 2>>, external |-> FALSE, header |-> 2]}

\* The layout classifier reports one more box of the parsed page.
AddParseBox ==
    /\ pc = "input"
    /\ Len(layout_information) < MaxParseBoxes
    /\ \E b \in ParseBoxChoices :
          layout_information' = Append(layout_information, b)
    /\ UNCHANGED <<pc, blocks, out, document>>

\* Text extraction reports one more text block of the parsed page.
AddParseBlock ==
    /\ pc = "input"
    /\ Len(blocks) < MaxParseBlocks
    /\ \E b \in ParseBlockChoices : blocks' = Append(blocks, b)
    /\ UNCHANGED <<pc, layout_information, out, document>>

\* The state of the page loop once the boxes are in reading order.
PageState(exist, full_ocred) ==
    [tables_exist |-> exist, full_ocred |-> full_ocred, tbf |-> None,
     boxes |-> <<>>, error |-> "none"]

\* Lines 1055-1065: tables_exist, the box repair, the reading order.  An
\* exception of find_reading_order leaves parse_document.
PreparePage ==
    /\ pc = "input"
    /\ \E full_ocred \in BOOLEAN :
          \E r \in {RepairedBoxes(layout_information, blocks, full_ocred)} :
              IF ReadingOrderRaises(blocks, r)
              THEN /\ pc' = "aborted"
                   /\ layout_information' = r
                   /\ out' = [PageState(tables_exist(layout_information),
                                        full_ocred)
                                 EXCEPT !.error = "find_reading_order"]
              ELSE /\ pc' = "ordered"
                   /\ \E o \in {find_reading_order(blocks, r)} :
                         layout_information' = o
                   /\ out' = PageState(tables_exist(layout_information),
                                       full_ocred)
    /\ UNCHANGED <<blocks, document>>

\* Lines 1067-1077 on a page without a table box: tbf = None.
SkipTables ==
    /\ pc = "ordered"
    /\ ~out.tables_exist
    /\ pc' = "boxes"
    /\ UNCHANGED <<layout_information, blocks, out, document>>

\* Lines 1067-1077 on a page with a table box: complete_table_structure and
\* page.find_tables return, the finder holding the tables it found.
FindTables ==
    /\ pc = "ordered"
    /\ out.tables_exist
    /\ pc' = "boxes"
    /\ \E n \in 0..MaxFound : \E tables \in [1..n -> FoundTableChoices] :
          out' = [out EXCEPT !.tbf = [tables |-> tables]]
    /\ UNCHANGED <<layout_information, blocks, document>>

\* Lines 1067-1077 on a page with a table box: complete_table_structure or
\* page.find_tables raises.  Neither call is inside a try statement, so the
\* exception leaves parse_document.
FindTablesRaises ==
    /\ pc = "ordered"
    /\ out.tables_exist
    /\ pc' = "aborted"
    /\ out' = [out EXCEPT !.error = "find_tables"]
    /\ UNCHANGED <<layout_information, blocks, document>>

\* One round of the loop over page.layout_information.
ProcessBox ==
    /\ pc = "boxes"
    /\ Len(out.boxes) < Len(layout_information)
    /\ \E b \in {LayoutBoxOf(layout_information[Len(out.boxes) + 1],
                             out.tbf, blocks)} :
          out' = [out EXCEPT !.boxes = Append(@, b)]
    /\ UNCHANGED <<pc, layout_information, blocks, document>>

\* document.pages.append(pagelayout)
AppendPage ==
    /\ pc = "boxes"
    /\ Len(out.boxes) = Len(layout_information)
    /\ pc' = "parsed"
    /\ document' = [pages |-> <<[boxes |-> out.boxes,
                                 full_ocred |-> out.full_ocred]>>]
    /\ UNCHANGED <<layout_information, blocks, out>>

NextParse ==
    \/ AddParseBox \/ AddParseBlock \/ PreparePage \/ SkipTables
    \/ FindTables \/ FindTablesRaises \/ ProcessBox \/ AppendPage

SpecParse == InitRepair /\ [][NextParse]_vars

\* Box i of the ordered list is a 'table' box for which the finder has no
\* table with IoU > 0.6.
NoCandidate(i) ==
    /\ layout_information[i].cls = "table"
    /\ Candidates(out.tbf, RectOf(layout_information[i])) = <<>>

\* The text lines of a box are too sparse for a table: there are some, but
\* only one, or every line has fewer than 2 spans.
Sparse(textlines) ==
    /\ textlines # <<>>
    /\ \/ Len(textlines) = 1
       \/ \A n \in DOMAIN textlines : Len(textlines[n].spans) < 2

\* C9 as stated: a failure of the table-structure detection never ends the
\* parsing of the page; on the parsed page every box is processed, a
\* 'table' box without a table of IoU > 0.6 is 'table-fallback', or 'text'
\* when its text lines are sparse, and every box left 'table' has a table
\* payload with the keys 'extract' and 'markdown'.
C9_TableFailureNeverAborts ==
    /\ ~(pc = "aborted" /\ out.error = "find_tables")
    /\ pc = "parsed" =>
          /\ Len(document.pages[1].boxes) = Len(layout_information)
          /\ \A i \in DOMAIN layout_information :
                LET b == document.pages[1].boxes[i]
                IN  /\ NoCandidate(i) =>
                          b.boxclass = IF Sparse(b.textlines) THEN "text"
                                       ELSE "table-fallback"
                    /\ b.boxclass = "table" =>
                          /\ b.table # None
                          /\ {"extract", "markdown"} \subseteq DOMAIN b.table

---------------------------------------------------------------------------
(* The OCR decision: helpers/utils.py, analyze_page, and                   *)
(* helpers/check_ocr.py, should_ocr_page.  A span is a record [bbox, text, *)
(* font, char_flags, alpha]; its text is kept as the counts the analysis   *)
(* takes from it: [stripped, bad, white], the length of text.strip(), the  *)
(* number of replacement characters and whether is_white(text) holds.      *)
(* Area fractions stay pairs of numerator and cover_area.                  *)

\* The page rectangle of the OCR decision (page.rect).
ocr_page_rect == Rect(0, 0, 100, 100)

\* The counters of analyze_page before the first block.
AnalysisStart ==
    [img_rect |-> EMPTY_RECT, txt_rect |-> EMPTY_RECT, vec_rect |-> EMPTY_RECT,
     img_area |-> 0, txt_area |-> 0, vec_area |-> 0,
     chars_total |-> 0, chars_bad |-> 0, ocr_spans |-> 0]

\* s["font"] == "GlyphLessFont" or neither bit 8 nor bit 16 of char_flags
IsOcrSpan(s) ==
    \/ s.font = "GlyphLessFont"
    \/ (s.char_flags \div 8) % 2 = 0 /\ (s.char_flags \div 16) % 2 = 0

\* The body of the span loop, lines 341-359.
AnalyzeSpan(acc, s) ==
    LET sr == intersect_rects(ocr_page_rect, s.bbox)
    IN  IF s.text.white \/ bbox_is_empty(sr) THEN acc
        ELSE IF ~IsOcrSpan(s) /\ s.alpha = 0 THEN acc
        ELSE [acc EXCEPT
                !.ocr_spans = IF IsOcrSpan(s) THEN @ + 1 ELSE @,
                !.chars_total = @ + s.text.stripped,
                !.chars_bad = @ + s.text.bad,
                !.txt_rect = RectUnion(@, sr),
                !.txt_area = @ + Width(sr) * Height(sr)]

RECURSIVE AnalyzeSpans(_, _, _)
AnalyzeSpans(acc, spans, n) ==
    IF n > Len(spans) THEN acc
    ELSE CHOOSE result \in
            {AnalyzeSpans(nxt, spans, n + 1) :
                nxt \in {AnalyzeSpan(acc, spans[n])}} : TRUE

\* The spans of the block's lines with a non-empty bbox, in order.
VisibleSpans(b) ==
    Concat([n \in DOMAIN b.lines |->
               IF bbox_is_empty(b.lines[n].bbox) THEN <<>>
               ELSE b.lines[n].spans])

\* The body of the block loop, lines 324-370.
AnalyzeBlock(acc, b) ==
    LET bbox == intersect_rects(ocr_page_rect, b.bbox)
        area == Width(bbox) * Height(bbox)
    IN  IF area = 0 THEN acc
        ELSE IF b.type = 1
        THEN [acc EXCEPT !.img_rect = RectUnion(@, bbox), !.img_area = @ + area]
        ELSE IF b.type = 0
        THEN IF bbox_is_empty(b.bbox) THEN acc
             ELSE CHOOSE result \in
                     {AnalyzeSpans(acc, spans, 1) :
                         spans \in {VisibleSpans(b)}} : TRUE
        ELSE IF /\ b.type = 3 /\ b.stroked /\ ~b.isrect
                /\ 2 < Width(bbox) /\ Width(bbox) <= 20
                /\ 2 < Height(bbox) /\ Height(bbox) <= 20
        THEN [acc EXCEPT !.vec_rect = RectUnion(@, bbox), !.vec_area = @ + area]
        ELSE acc

RECURSIVE AnalyzeBlocks(_, _, _)
AnalyzeBlocks(acc, blks, n) ==
    IF n > Len(blks) THEN acc
    ELSE CHOOSE result \in
            {AnalyzeBlocks(nxt, blks, n + 1) :
                nxt \in {AnalyzeBlock(acc, blks[n])}} : TRUE

\* The analysis dict, lines 373-386, every fraction left as its numerator
\* over cover_area.
AnalysisOf(acc) ==
    [covered |-> RectUnion(RectUnion(acc.img_rect, acc.txt_rect), acc.vec_rect),
     cover_area |-> RectArea(RectUnion(RectUnion(acc.img_rect, acc.txt_rect),
                                       acc.vec_rect)),
     img_area |-> acc.img_area,
     txt_joins |-> RectArea(acc.txt_rect),
     txt_area |-> acc.txt_area,
     vec_area |-> acc.vec_area,
     chars_total |-> acc.chars_total,
     chars_bad |-> acc.chars_bad,
     ocr_spans |-> acc.ocr_spans]

analyze_page(blks) ==
    CHOOSE result \in
        {AnalysisOf(acc) : acc \in {AnalyzeBlocks(AnalysisStart, blks, 1)}} : TRUE

\* num / cover_area < p / q, the fraction being 0 when cover_area is 0.
FractionBelow(num, cover_area, p, q) ==
    IF cover_area = 0 THEN 0 < p ELSE q * num < p * cover_area

\* The decision dict as should_ocr_page creates it.
DecisionStart ==
    [should_ocr |-> FALSE, has_ocr_text |-> FALSE, has_text |-> FALSE,
     readable_text |-> FALSE, image_covers_page |-> FALSE,
     has_vector_chars |-> FALSE, transform |-> "Identity", pixmap |-> None]

\* Lines 161-164: very little text area exists.
SparseTextNoJoins(analysis) ==
    /\ FractionBelow(analysis.txt_area, analysis.cover_area, 5, 100)
    /\ analysis.chars_total < 200
SparseText(analysis) ==
    /\ FractionBelow(analysis.txt_area, analysis.cover_area, 5, 100)
    /\ analysis.chars_total < 200
    /\ FractionBelow(analysis.txt_joins, analysis.cover_area, 3, 10)

\* Lines 176-177: readability = 1 - chars_bad / chars_total is at least
\* text_readability_thresh (0.9), i.e. chars_bad / chars_total <= 1/10.
ReadableStrict(analysis) == 10 * analysis.chars_bad < analysis.chars_total
Readable(analysis) == 10 * analysis.chars_bad <= analysis.chars_total

\* Lines 160-183: the preset from the text area, or from the readability
\* of the text (thresholds 0.9).
OcrPreset(analysis) ==
    IF SparseText(analysis)
    THEN LET vec == ~FractionBelow(analysis.vec_area, analysis.cover_area, 9, 10)
             img == ~FractionBelow(analysis.img_area, analysis.cover_area, 9, 10)
         IN  [DecisionStart EXCEPT !.should_ocr = vec \/ img,
                                   !.has_vector_chars = vec,
                                   !.image_covers_page = img]
    ELSE IF analysis.chars_total >= 200
    THEN LET readable == Readable(analysis)
         IN  [DecisionStart EXCEPT !.has_text = TRUE,
                                   !.readable_text = readable,
                                   !.should_ocr = ~readable]
    ELSE DecisionStart

\* The weighted score of analyze_image has at most 6 points.
MaxScore == 6

\* if score >= 3 (check_ocr.py line 98)
PhotoLikeAbove(score) == score > 3
PhotoLike(score) == score >= 3

\* get_page_image, from the score analyze_image gives the gray image of the
\* covered area: (matrix, pix, photo).
get_page_image(score) ==
    IF PhotoLike(score)
    THEN [matrix |-> "Identity", pix |-> None, photo |-> TRUE, score |-> score]
    ELSE [matrix |-> "matrix", pix |-> [pixmap |-> "page image"],
          photo |-> FALSE, score |-> score]

\* Lines 184-193: the page image is rendered and analysed.
NeedsPageImage(d) ==
    /\ d.should_ocr
    /\ ~(~d.readable_text /\ d.has_text)
    /\ ~d.has_text

\* Lines 185-206: the final check on the page image; image is what
\* get_page_image returns for the rendered page.
OcrFinal(d, image) ==
    IF ~d.should_ocr THEN d
    ELSE IF ~d.readable_text /\ d.has_text THEN d
    ELSE IF d.has_text THEN d
    ELSE IF image.photo THEN [d EXCEPT !.should_ocr = FALSE, !.pixmap = None]
    ELSE [d EXCEPT !.should_ocr = TRUE, !.transform = image.matrix,
                   !.pixmap = image.pix]

\* if analysis["ocr_spans"] > 0
AlreadyOcredOne(analysis) == analysis.ocr_spans > 1
AlreadyOcred(analysis) == analysis.ocr_spans > 0

should_ocr_page(analysis, image) ==
    IF bbox_is_empty(analysis.covered) THEN DecisionStart
    ELSE IF AlreadyOcred(analysis)
    THEN [DecisionStart EXCEPT !.has_ocr_text = TRUE]
    ELSE OcrFinal(OcrPreset(analysis), image)

\* The page image should_ocr_page asked for, None when it returned before
\* line 195.
ImageUsed(analysis, image) ==
    IF /\ ~bbox_is_empty(analysis.covered)
       /\ ~AlreadyOcred(analysis)
       /\ NeedsPageImage(OcrPreset(analysis))
    THEN image ELSE None

MaxOcrBlocks == 3

SpanOfText(r, stripped, bad, font, char_flags) ==
    [bbox |-> r, font |-> font, char_flags |-> char_flags, alpha |-> 255,
     text |-> [stripped |-> stripped, bad |-> bad, white |-> stripped = 0]]

\* A text block of one line of one span.
SpanBlock(s) ==
    [type |-> 0, bbox |-> s.bbox, isrect |-> FALSE, stroked |-> FALSE,
     lines |-> <<[bbox |-> s.bbox, spans |-> <<s>>]>>]

\* Content of the page the OCR decision is taken on: readable text, text
\* with exactly a tenth of replacement characters, text full of them, a few
\* characters in the top left and in the bottom right corner, text of the
\* OCR font (readable, unreadable, off the page, white), text of render
\* mode 3, an invisible span, an image over the page, one over nine tenths
\* of it, a small image and a character-like vector.
OcrBlockChoices ==
    {SpanBlock(SpanOfText(Rect(0, 0, 100, 50), 250, 10, "Helvetica", 24)),
     SpanBlock(SpanOfText(Rect(0, 0, 100, 50), 250, 25, "Helvetica", 24)),
     SpanBlock(SpanOfText(Rect(0, 0, 100, 50), 250, 50, "Helvetica", 24)),
     SpanBlock(SpanOfText(Rect(0, 0, 10, 4), 20, 0, "Helvetica", 16)),
     SpanBlock(SpanOfText(Rect(90, 96, 100, 100), 20, 5, "Helvetica", 16)),
     SpanBlock(SpanOfText(Rect(0, 50, 100, 100), 250, 50, "GlyphLessFont", 24)),
     SpanBlock(SpanOfText(Rect(0, 50, 10, 54), 20, 0, "GlyphLessFont", 24)),
     SpanBlock(SpanOfText(Rect(200, 0, 250, 50), 20, 0, "GlyphLessFont", 24)),
     SpanBlock(SpanOfText(Rect(0, 50, 10, 54), 0, 0, "GlyphLessFont", 24)),
     SpanBlock(SpanOfText(Rect(0, 60, 10, 64), 20, 0, "Helvetica", 1)),
     SpanBlock([SpanOfText(Rect(0, 0, 100, 50), 250, 50, "Helvetica", 24)
                   EXCEPT !.alpha = 0]),
     [type |-> 1, bbox |-> Rect(0, 0, 100, 100), isrect |-> FALSE,
      stroked |-> FALSE, lines |-> <<>>],
     [type |-> 1, bbox |-> Rect(0, 0, 100, 90), isrect |-> FALSE,
      stroked |-> FALSE, lines |-> <<>>],
     [type |-> 1, bbox |-> Rect(50, 50, 60, 60), isrect |-> FALSE,
      stroked |-> FALSE, lines |-> <<>>],
     [type |-> 3, bbox |-> Rect(20, 20, 30, 30), isrect |-> FALSE,
      stroked |-> TRUE, lines |-> <<>>]}

\* Text extraction reports one more block of the page.
AddOcrBlock ==
    /\ pc = "input"
    /\ Len(blocks) < MaxOcrBlocks
    /\ \E b \in OcrBlockChoices : blocks' = Append(blocks, b)
    /\ UNCHANGED <<pc, layout_information, out, document>>

\* check_ocr.should_ocr_page(page, blocks=blocks); out keeps the analysis,
\* the decision returned and the page image the decision was taken on.
ShouldOcrPage ==
    /\ pc = "input"
    /\ pc' = "decided"
    /\ \E score \in 0..MaxScore : \E analysis \in {analyze_page(blocks)} :
          \E image \in {get_page_image(score)} :
             out' = [analysis |-> analysis,
                     decision |-> should_ocr_page(analysis, image),
                     image |-> ImageUsed(analysis, image)]
    /\ UNCHANGED <<layout_information, blocks, document>>

NextOcr == AddOcrBlock \/ ShouldOcrPage

SpecOcr == InitRepair /\ [][NextOcr]_vars

\* C10: whenever the covered region is not empty and at least one span is
\* counted as OCR text, should_ocr_page returns has_ocr_text = True,
\* should_ocr = False and pixmap = None, whatever the text area, the
\* character counts, the readability and the image and vector coverage are.
C10_OcredPageSkipped ==
    (/\ pc = "decided"
     /\ ~bbox_is_empty(out.analysis.covered)
     /\ out.analysis.ocr_spans > 0)
    => /\ out.decision.has_ocr_text
       /\ ~out.decision.should_ocr
       /\ out.decision.pixmap = None

\* A page with one OCR span whose text, 250 characters with 50 replacement
\* characters, the readability rule would send to OCR.
C10_Witness ==
    /\ pc = "decided"
    /\ out.analysis.ocr_spans = 1
    /\ out.analysis.chars_total >= 200
    /\ 10 * out.analysis.chars_bad > out.analysis.chars_total
    /\ out.decision.has_ocr_text
    /\ ~out.decision.should_ocr

\* The page of a decision: content is there, none of it from OCR.
Undecided(analysis) ==
    /\ ~bbox_is_empty(analysis.covered)
    /\ analysis.ocr_spans = 0

\* C11: for a page with a non-empty covered region, no OCR span and at least
\* 200 characters, should_ocr_page returns has_text = True, should_ocr = True
\* exactly when 1 - chars_bad / chars_total is below 0.9 (more than a tenth
\* of the characters are replacement characters), and readable_text =
\* not should_ocr.
C11_ReadabilityRule ==
    (/\ pc = "decided"
     /\ Undecided(out.analysis)
     /\ out.analysis.chars_total >= 200)
    => /\ out.decision.has_text
       /\ out.decision.should_ocr
             <=> (10 * out.analysis.chars_bad > out.analysis.chars_total)
       /\ out.decision.readable_text <=> ~out.decision.should_ocr

\* 250 characters with 50 replacement characters: readability 0.8, OCR.
C11_Witness ==
    /\ pc = "decided"
    /\ Undecided(out.analysis)
    /\ out.analysis.chars_total = 250
    /\ out.analysis.chars_bad = 50
    /\ out.decision.has_text
    /\ out.decision.should_ocr
    /\ ~out.decision.readable_text

\* num / cover_area > 9/10, resp. >= 9/10 (the fraction is 0 for cover_area 0)
ExceedsThreshold(num, cover_area) == cover_area # 0 /\ 10 * num > 9 * cover_area
ReachesThreshold(num, cover_area) == cover_area # 0 /\ 10 * num >= 9 * cover_area

\* OCR was indicated before the photo check: the decision says so, or the
\* page image was asked for.
OcrIndicated == out.decision.should_ocr \/ out.image # None

\* Text area under 5 % of the covered area and text join ratio under 0.3.
LittleText(analysis) ==
    /\ analysis.cover_area # 0
    /\ 100 * analysis.txt_area < 5 * analysis.cover_area
    /\ 10 * analysis.txt_joins < 3 * analysis.cover_area

\* C12 (as stated): for a page with a non-empty covered region, no OCR span
\* and fewer than 200 characters, OCR is indicated only if the text area is
\* under 5 % of the covered area, the text join ratio is under 0.3 and the
\* vector-character coverage or the image coverage exceeds 0.9; every other
\* such page gets should_ocr = False.
C12_SparseTextRule ==
    (/\ pc = "decided"
     /\ Undecided(out.analysis)
     /\ out.analysis.chars_total < 200)
    => (OcrIndicated =>
          /\ LittleText(out.analysis)
          /\ \/ ExceedsThreshold(out.analysis.vec_area, out.analysis.cover_area)
             \/ ExceedsThreshold(out.analysis.img_area, out.analysis.cover_area))

\* C12 (amended): for such a page OCR is indicated exactly when the text
\* area is under 5 % of the covered area, the text join ratio is under 0.3
\* and the vector-character coverage or the image coverage is at least 0.9;
\* every other such page gets should_ocr = False, and has_text stays False.
C12_SparseTextRuleAtLeast ==
    (/\ pc = "decided"
     /\ Undecided(out.analysis)
     /\ out.analysis.chars_total < 200)
    => /\ OcrIndicated <=>
            /\ LittleText(out.analysis)
            /\ \/ ReachesThreshold(out.analysis.vec_area, out.analysis.cover_area)
               \/ ReachesThreshold(out.analysis.img_area, out.analysis.cover_area)
       /\ ~OcrIndicated => ~out.decision.should_ocr
       /\ ~out.decision.has_text

\* An image over exactly nine tenths of the covered area and a few
\* characters, five of them replacement characters: OCR is indicated.
C12_Witness ==
    /\ pc = "decided"
    /\ Undecided(out.analysis)
    /\ out.analysis.chars_total = 20
    /\ out.analysis.chars_bad = 5
    /\ 10 * out.analysis.img_area = 9 * out.analysis.cover_area
    /\ out.decision.should_ocr
    /\ out.decision.image_covers_page

---------------------------------------------------------------------------
(* Glyph repair: helpers/check_ocr.py, get_span_ocr and repair_blocks.  A  *)
(* span holds its characters either as "text" (dict extraction) or as      *)
(* "chars", one record [c, origin] per character (rawdict extraction); a   *)
(* text is a sequence of characters.                                       *)

REPLACEMENT_CHARACTER == "<U+FFFD>"

\* get_span_ocr, lines 31-33: the text recognised in the span's rectangle,
\* line breaks replaced by spaces, stripped.
get_span_ocr(raw) ==
    Strip([i \in DOMAIN raw |-> IF raw[i] = "\n" THEN " " ELSE raw[i]])

\* Lines 50-53: the text of a span.
SpanText(span) ==
    IF "chars" \in DOMAIN span
    THEN [i \in DOMAIN span.chars |-> span.chars[i].c]
    ELSE span.text

\* Lines 54-67: the span after repair, raw being what OCR recognises in it.
RepairSpan(span, raw) ==
    LET span_text == SpanText(span)
        span_text_len == Len(span_text)
        ocr == get_span_ocr(raw)
        new_text == SubSeq(ocr, 1, Min(Len(ocr), span_text_len))
    IN  IF REPLACEMENT_CHARACTER \notin Range(span_text) THEN span
        ELSE IF "chars" \in DOMAIN span
        THEN [span EXCEPT !.chars =
                 [i \in 1..Min(Len(new_text), Len(span.chars)) |->
                     [span.chars[i] EXCEPT !.c = new_text[i]]]]
        ELSE [span EXCEPT !.text = new_text]

\* Lines 42-68 for one block; raw is the OCR oracle of the block's spans.
RepairBlock(block, raw) ==
    IF block.type # 0 THEN block
    ELSE [block EXCEPT !.lines =
             [l \in DOMAIN block.lines |->
                 [block.lines[l] EXCEPT !.spans =
                     [k \in DOMAIN block.lines[l].spans |->
                         RepairSpan(block.lines[l].spans[k], raw)]]]]

\* repair_blocks(input_blocks, page); raws[n] is what OCR recognises in the
\* spans of block n.
repair_blocks(input_blocks, raws) ==
    [n \in DOMAIN input_blocks |-> RepairBlock(input_blocks[n], raws[n])]

MaxGlyphBlocks == 2

\* A text block of one line of one span.
GlyphBlock(span) == [type |-> 0, lines |-> <<[spans |-> <<span>>]>>]

\* The characters of a rawdict span.
CharsOf(text) == [i \in DOMAIN text |-> [c |-> text[i], origin |-> i]]

\* Blocks of the page under glyph repair: intact text, text with missing
\* glyphs (by text and by characters), and an image block.
GlyphBlockChoices ==
    {GlyphBlock([text |-> <<"a", "b">>]),
     GlyphBlock([text |-> <<REPLACEMENT_CHARACTER, "b", REPLACEMENT_CHARACTER>>]),
     GlyphBlock([chars |-> CharsOf(<<"a", REPLACEMENT_CHARACTER, "c">>)]),
     [type |-> 1, lines |-> <<>>]}

\* What OCR recognises in a span's rectangle: nothing, one character, as
\* many as the span has, more (over two lines), and padded by blanks.
RawOcrChoices ==
    {<<>>, <<"x">>, <<"x", "y", "z">>, <<"x", "\n", "y", "z", "w">>,
     <<" ", "x", "y", " ">>}

\* Text extraction reports one more block of the page.
AddGlyphBlock ==
    /\ pc = "input"
    /\ Len(blocks) < MaxGlyphBlocks
    /\ \E b \in GlyphBlockChoices : blocks' = Append(blocks, b)
    /\ UNCHANGED <<pc, layout_information, out, document>>

\* blocks = check_ocr.repair_blocks(blocks, page); out keeps the blocks
\* as they were.
RepairBlocks ==
    /\ pc = "input"
    /\ blocks # <<>>
    /\ pc' = "glyphs_repaired"
    /\ \E raws \in [DOMAIN blocks -> RawOcrChoices] :
          /\ blocks' = repair_blocks(blocks, raws)
          /\ out' = [input |-> blocks, raws |-> raws]
    /\ UNCHANGED <<layout_information, document>>

NextGlyph == AddGlyphBlock \/ RepairBlocks

SpecGlyph == InitRepair /\ [][NextGlyph]_vars

\* The one span of block n, before and after the repair.
SpanBefore(n) == out.input[n].lines[1].spans[1]
SpanAfter(n) == blocks[n].lines[1].spans[1]

\* C15: repair_blocks keeps the length of every span: when OCR returns
\* fewer characters than the span had, the prefix is replaced and the rest
\* of the original text is kept; when OCR returns more, the result is
\* truncated to the original count.
C15_RepairKeepsSpanLength ==
    pc = "glyphs_repaired" =>
       \A n \in DOMAIN blocks :
          (/\ blocks[n].type = 0
           /\ REPLACEMENT_CHARACTER \in Range(SpanText(SpanBefore(n))))
          => LET before == SpanText(SpanBefore(n))
                 after == SpanText(SpanAfter(n))
                 ocr == get_span_ocr(out.raws[n])
                 k == Min(Len(ocr), Len(before))
             IN  /\ Len(after) = Len(before)
                 /\ after = SubSeq(ocr, 1, k) \o SubSeq(before, k + 1, Len(before))

---------------------------------------------------------------------------
(* parse_document as a whole: helpers/document_layout.py, lines 900-1233.  *)
(* The caller calls it up to MaxParseCalls times in one process, so the    *)
(* module variable INFO_MESSAGES lives across the calls.  out holds        *)
(*   call        the number of the call,                                   *)
(*   args        its arguments,                                            *)
(*   page_filter the page numbers still to process,                        *)
(*   use_ocr     document.use_ocr,                                         *)
(*   mydoc_open  whether the document handle mydoc is open,                *)
(*   ocr_open    whether a temporary OCR document of the call is open,     *)
(*   loaded      how many pages the call has loaded,                       *)
(*   error       the exception that left the call, "" if none,             *)
(*   info        INFO_MESSAGES: its text, one item [call, page] per notice *)
(*               saying which call printed it for which page, and its      *)
(*               stream position,                                          *)
(*   produced    the notices the call has printed to INFO_MESSAGES,        *)
(*   emitted     what the call has passed to pymupdf.message,              *)
(*   last        the page processed last: its decision, the OCR steps run  *)
(*               on it and its flags.                                      *)
(* document is the ParsedDocument under construction.                      *)

\* mydoc.page_count
DocPageCount == 2
MaxParseCalls == 2

\* The 'pages' argument: None, an int, a sequence (v its items, ints
\* whether all of them are ints) or a value without __getitem__.
PagesNone == [kind |-> "None", v |-> <<>>, ints |-> TRUE]
PagesInt(n) == [kind |-> "int", v |-> <<n>>, ints |-> TRUE]
PagesSeq(v) == [kind |-> "sequence", v |-> v, ints |-> TRUE]

PagesChoices ==
    {PagesNone, PagesInt(1), PagesInt(-1), PagesInt(DocPageCount),
     PagesInt(-DocPageCount - 1),
     PagesSeq(<<>>), PagesSeq(<<1, 0, 1>>), PagesSeq(<<-1, 0>>),
     PagesSeq(<<-1, DocPageCount - 1>>), PagesSeq(<<0, DocPageCount>>),
     [PagesSeq(<<0, 1>>) EXCEPT !.ints = FALSE],
     [kind |-> "other", v |-> <<>>, ints |-> FALSE]}

DefaultArgs ==
    [doc |-> "path", pages |-> PagesNone, embed_images |-> FALSE,
     write_images |-> FALSE, use_ocr |-> TRUE, force_ocr |-> FALSE,
     ocr_function |-> "None", tessdata |-> TRUE]

\* The calls made: every 'pages' value on a path and on a Document, the
\* image options, and the OCR set-ups.
ArgChoices ==
    {[DefaultArgs EXCEPT !.pages = p, !.doc = d] :
        p \in PagesChoices, d \in {"path", "Document"}}
    \cup {[DefaultArgs EXCEPT !.embed_images = TRUE, !.write_images = w,
                              !.doc = d] :
            w \in BOOLEAN, d \in {"path", "Document"}}
    \cup {[DefaultArgs EXCEPT !.ocr_function = "callable"],
          [DefaultArgs EXCEPT !.ocr_function = "callable", !.force_ocr = TRUE],
          [DefaultArgs EXCEPT !.force_ocr = TRUE],
          [DefaultArgs EXCEPT !.use_ocr = FALSE],
          [DefaultArgs EXCEPT !.tessdata = FALSE]}

\* while pages < 0: pages += mydoc.page_count (lines 963-964); load_page
\* treats a negative page number the same way.
RECURSIVE WhileNegative(_, _)
WhileNegative(p, page_count) ==
    IF p < 0 THEN WhileNegative(p + page_count, page_count) ELSE p

\* Lines 970-976: the test of page_filter.
CheckedFilter(f, ints, page_count) ==
    IF ~ints THEN [raises |-> "ValueError", filter |-> <<>>]
    ELSE IF f = <<>> THEN [raises |-> "IndexError", filter |-> <<>>]
    ELSE IF f[Len(f)] >= page_count THEN [raises |-> "ValueError", filter |-> <<>>]
    ELSE [raises |-> "", filter |-> f]

\* Lines 960-976: page_filter from the 'pages' argument.
page_filter(pages, page_count) ==
    IF pages.kind = "None"
    THEN CheckedFilter([i \in 1..page_count |-> i - 1], TRUE, page_count)
    ELSE IF pages.kind = "int"
    THEN CheckedFilter(<<WhileNegative(pages.v[1], page_count)>>, TRUE, page_count)
    ELSE IF pages.kind = "other"
    THEN [raises |-> "ValueError", filter |-> <<>>]
    ELSE CheckedFilter(SetToSortedSeq(Range(pages.v)), pages.ints, page_count)

\* Lines 946-958: document.use_ocr.
DocumentUseOcr(args) ==
    args.use_ocr /\ (args.ocr_function = "callable" \/ args.tessdata)

\* print(..., file=INFO_MESSAGES): the text is written at the stream
\* position, the gap up to it filled with NUL characters.
NulItem == [call |-> 0, page |-> 0]
InfoWrite(info, notice) ==
    LET gap == [i \in 1..(info.pos - Len(info.text)) |-> NulItem]
        text == info.text \o gap \o <<notice>>
    IN  [text |-> text, pos |-> Len(text)]

\* INFO_MESSAGES.truncate(0): the text is dropped, the position stays.
InfoTruncate(info) == [info EXCEPT !.text = <<>>]

\* if decision.get("pixmap") (line 1015)
FullPageOcrAlways(decision) == TRUE
FullPageOcr(decision) == "pixmap" \in DOMAIN decision /\ decision.pixmap # None

\* Lines 988-1011: the decision on the page.
PageDecisionAnyway(args, use_ocr, analysis, image) ==
    IF args.force_ocr THEN [should_ocr |-> FALSE, has_ocr_text |-> TRUE]
    ELSE should_ocr_page(analysis, image)
PageDecision(args, use_ocr, analysis, image) ==
    IF args.force_ocr THEN [should_ocr |-> FALSE, has_ocr_text |-> TRUE]
    ELSE IF use_ocr THEN should_ocr_page(analysis, image)
    ELSE [should_ocr |-> FALSE, has_ocr_text |-> analysis.ocr_spans > 0]

\* Lines 988-1053: the OCR steps taken on the page: "ocr_function" is the
\* caller's function, "builtin" the OCR of the page pixmap, "repair_blocks"
\* the glyph repair; notice is what is printed to INFO_MESSAGES.
PageOcr(args, decision) ==
    IF args.force_ocr
    THEN [ocr |-> {"ocr_function"}, notice |-> "",
          full_ocred |-> TRUE, text_ocred |-> FALSE]
    ELSE IF ~decision.should_ocr
    THEN [ocr |-> {}, notice |-> "",
          full_ocred |-> decision.has_ocr_text, text_ocred |-> FALSE]
    ELSE IF FullPageOcr(decision)
    THEN [ocr |-> IF args.ocr_function = "callable"
                  THEN {"ocr_function"} ELSE {"builtin"},
          notice |-> "Full-page OCR",
          full_ocred |-> TRUE, text_ocred |-> FALSE]
    ELSE [ocr |-> {"repair_blocks"}, notice |-> "Text-only OCR",
          full_ocred |-> decision.has_ocr_text, text_ocred |-> TRUE]

\* What text extraction finds on a page of the document: unreadable text,
\* a scanned image, readable text, text laid by an earlier OCR.
DocPageChoices ==
    {<<SpanBlock(SpanOfText(Rect(0, 0, 100, 50), 250, 50, "Helvetica", 24))>>,
     <<[type |-> 1, bbox |-> Rect(0, 0, 100, 100), isrect |-> FALSE,
        stroked |-> FALSE, lines |-> <<>>]>>,
     <<SpanBlock(SpanOfText(Rect(0, 0, 100, 50), 250, 10, "Helvetica", 24))>>,
     <<SpanBlock(SpanOfText(Rect(0, 50, 10, 54), 20, 0, "GlyphLessFont", 24))>>}

InitDoc ==
    /\ pc = "idle"
    /\ layout_information = <<>>
    /\ blocks = <<>>
    /\ document = None
    /\ out = [call |-> 0, args |-> DefaultArgs, page_filter |-> <<>>,
              use_ocr |-> FALSE, mydoc_open |-> FALSE, ocr_open |-> FALSE,
              loaded |-> 0, error |-> "",
              info |-> [text |-> <<>>, pos |-> 0],
              produced |-> <<>>, emitted |-> <<>>, last |-> None]

\* Lines 917-980: parse_document is called; the document is opened (or is
\* the caller's), the arguments are checked and page_filter is set up.
ParseDocumentCall ==
    /\ pc \in {"idle", "returned", "raised"}
    /\ out.call < MaxParseCalls
    /\ \E args \in ArgChoices :
          \E pf \in {page_filter(args.pages, DocPageCount)} :
             LET started == [out EXCEPT !.call = @ + 1, !.args = args,
                                        !.page_filter = <<>>,
                                        !.use_ocr = FALSE,
                                        !.mydoc_open = TRUE,
                                        !.ocr_open = FALSE,
                                        !.loaded = 0, !.error = "",
                                        !.produced = <<>>, !.emitted = <<>>,
                                        !.last = None]
             IN  IF args.embed_images /\ args.write_images
                 THEN /\ pc' = "raised"
                      /\ out' = [started EXCEPT !.error = "ValueError"]
                      /\ document' = None
                 ELSE IF pf.raises # ""
                 THEN /\ pc' = "raised"
                      /\ out' = [started EXCEPT !.error = pf.raises,
                                                !.use_ocr = DocumentUseOcr(args)]
                      /\ document' = [pages |-> <<>>]
                 ELSE /\ pc' = "pages"
                      /\ out' = [started EXCEPT !.page_filter = pf.filter,
                                                !.use_ocr = DocumentUseOcr(args)]
                      /\ document' = [pages |-> <<>>]
    /\ UNCHANGED <<layout_information, blocks>>

\* Lines 982-1225, one round of the page loop.  fail says where the round
\* raises: not at all, in the OCR step, or in the layout steps after it.
ParsePage ==
    /\ pc = "pages"
    /\ out.page_filter # <<>>
    /\ \E content \in DocPageChoices, score \in {2, 3},
          fail \in {"none", "ocr", "layout"} :
          \E decision \in {PageDecision(out.args, out.use_ocr,
                                        analyze_page(content),
                                        get_page_image(score))} :
          \E step \in {PageOcr(out.args, decision)} :
             LET pno == Head(out.page_filter)
                 number == WhileNegative(pno, DocPageCount)
                 notice == [call |-> out.call, page |-> number + 1]
                 loaded == [out EXCEPT !.loaded = @ + 1]
                 \* the caller's function is called but is None
                 not_callable == "ocr_function" \in step.ocr
                                 /\ out.args.ocr_function # "callable"
                 \* the notice is printed before repair_blocks, and after
                 \* a full-page OCR
                 printed == /\ step.notice # ""
                            /\ ~not_callable
                            /\ fail = "ocr" => step.notice = "Text-only OCR"
                 logged == IF printed
                           THEN [loaded EXCEPT
                                    !.info = InfoWrite(@, notice),
                                    !.produced = Append(@, notice)]
                           ELSE loaded
                 last == [page_number |-> number + 1, decision |-> decision,
                          ocr |-> IF not_callable THEN {} ELSE step.ocr,
                          full_ocred |-> step.full_ocred,
                          text_ocred |-> step.text_ocred]
             IN  /\ fail = "ocr" => step.ocr # {}
                 /\ IF not_callable \/ fail # "none"
                    THEN /\ pc' = "raised"
                         /\ out' = [logged EXCEPT
                                      !.error = IF not_callable THEN "TypeError"
                                                ELSE "Exception",
                                      !.ocr_open = /\ ~not_callable
                                                   /\ fail = "ocr"
                                                   /\ "builtin" \in step.ocr,
                                      !.last = last]
                         /\ UNCHANGED document
                    ELSE /\ pc' = "pages"
                         /\ out' = [logged EXCEPT !.page_filter = Tail(@),
                                                  !.last = last]
                         /\ document' =
                               [pages |-> Append(document.pages,
                                   [page_number |-> number + 1,
                                    full_ocred |-> step.full_ocred,
                                    text_ocred |-> step.text_ocred])]
    /\ UNCHANGED <<layout_information, blocks>>

\* Lines 1226-1233: the loop is over; the document is closed if it was
\* opened here, the notices are emitted and the document is returned.
ParseReturn ==
    /\ pc = "pages"
    /\ out.page_filter = <<>>
    /\ pc' = "returned"
    /\ out' = [out EXCEPT
                 !.mydoc_open = IF out.args.doc = "path" THEN FALSE ELSE @,
                 !.emitted = out.info.text,
                 !.info = IF out.info.text # <<>> THEN InfoTruncate(@) ELSE @]
    /\ UNCHANGED <<layout_information, blocks, document>>

NextDoc == ParseDocumentCall \/ ParsePage \/ ParseReturn

SpecDoc == InitDoc /\ [][NextDoc]_vars

\* A page has been through the OCR steps of the running or finished call.
PageSeen == pc \in {"pages", "returned", "raised"} /\ out.last # None

\* The decision confirms OCR for a page that has text.
TextOnlyDecision(decision) ==
    /\ decision.should_ocr
    /\ "has_text" \in DOMAIN decision
    /\ decision.has_text

\* The page was only glyph-repaired.
OnlyGlyphRepaired ==
    /\ out.last.ocr = {"repair_blocks"}
    /\ out.last.text_ocred
    /\ ~out.last.full_ocred

\* C14 (as stated): a page whose decision confirms OCR while the page has
\* text is only glyph-repaired (repair_blocks, text_ocred = True, full_ocred
\* = False), neither the built-in OCR nor ocr_function is called for it; and
\* full-page OCR runs only for a decision that carries a pixmap.
C14_TextOnlyPath ==
    PageSeen =>
       /\ TextOnlyDecision(out.last.decision) => OnlyGlyphRepaired
       /\ out.last.ocr \cap {"builtin", "ocr_function"} # {}
             => FullPageOcr(out.last.decision)

\* C14 (amended): a page whose decision confirms OCR while the page has
\* text is only glyph-repaired; full-page OCR runs only for a decision that
\* carries a pixmap or because the caller set force_ocr, and the built-in
\* OCR only for a decision that carries a pixmap.
C14_TextOnlyPathUnlessForced ==
    PageSeen =>
       /\ TextOnlyDecision(out.last.decision) => OnlyGlyphRepaired
       /\ "ocr_function" \in out.last.ocr
             => FullPageOcr(out.last.decision) \/ out.args.force_ocr
       /\ "builtin" \in out.last.ocr => FullPageOcr(out.last.decision)

\* A page of unreadable text went through: glyph repair only.
C14_Witness ==
    /\ pc = "returned"
    /\ out.last # None
    /\ TextOnlyDecision(out.last.decision)
    /\ ~out.last.decision.readable_text
    /\ OnlyGlyphRepaired
    /\ document.pages # <<>>
    /\ document.pages[Len(document.pages)].text_ocred

\* The source pages (1-based) the 'pages' argument selects.
SelectedPages(args) ==
    IF args.pages.kind = "None" THEN 1..DocPageCount
    ELSE {WhileNegative(x, DocPageCount) + 1 : x \in Range(args.pages.v)}

\* C16: for every accepted 'pages' argument the returned document holds
\* each selected source page exactly once, page_number strictly increasing.
C16_PageOrder ==
    pc = "returned" =>
       /\ \A i, j \in DOMAIN document.pages :
             i < j => document.pages[i].page_number < document.pages[j].page_number
       /\ {document.pages[i].page_number : i \in DOMAIN document.pages}
             = SelectedPages(out.args)

\* The arguments are invalid: 'pages' is no int and no sequence of ints, is
\* an empty subset or names a page outside -page_count .. page_count - 1,
\* or both write_images and embed_images are set.
InvalidArgs(args) ==
    \/ args.embed_images /\ args.write_images
    \/ args.pages.kind = "other"
    \/ ~args.pages.ints
    \/ args.pages.kind = "sequence" /\ args.pages.v = <<>>
    \/ \E x \in Range(args.pages.v) : x >= DocPageCount \/ x < -DocPageCount

\* C17: whenever the arguments are invalid, parse_document raises
\* ValueError before any page is loaded.
C17_InputErrorsFailFast ==
    (pc # "idle" /\ InvalidArgs(out.args))
    => /\ pc = "raised"
       /\ out.error = "ValueError"
       /\ out.loaded = 0

\* C18: on every exit of parse_document a document handle it opened itself
\* is closed and a Document of the caller is left open; no temporary OCR
\* document is open when a page is taken up or when the call is over.
C18_ResourceCleanup ==
    /\ pc \in {"returned", "raised"} =>
          /\ out.args.doc = "path" => ~out.mydoc_open
          /\ out.args.doc = "Document" => out.mydoc_open
          /\ ~out.ocr_open
    /\ pc = "pages" => ~out.ocr_open

\* C19: the OCR notices of a call are only buffered while its pages are
\* processed; when the call is over, by return or by exception, exactly
\* its own notices have been emitted, once, and INFO_MESSAGES is empty.
C19_WarningsOncePerCall ==
    /\ pc = "pages" => out.emitted = <<>>
    /\ pc \in {"returned", "raised"} =>
          /\ out.emitted = out.produced
          /\ out.info.text = <<>>
    /\ \A i \in DOMAIN out.emitted : out.emitted[i].call = out.call

---------------------------------------------------------------------------
(* Specification SpecChunks: a parsed document of one or more pages is     *)
(* built page by page and box by box, and then serialized once with        *)
(* page_chunks=True, by to_markdown or to_text, with any choice of header, *)
(* footer and page_separators.                                             *)

MaxChunkBoxes == 3
MaxChunkPages == 2

\* The boxes extraction may add to a page: a paragraph, a numbered list
\* item, a footnote, a running header, and a page number in the footer.
ChunkBoxChoices ==
    {[cls |-> "text",
      lines |-> <<[x0 |-> 10, spans |-> <<SpanOf(<<"a", "b">>, {})>>]>>],
     [cls |-> "list-item",
      lines |-> <<[x0 |-> 0,
                   spans |-> <<SpanOf(<<"<U+2022>", " ", "1", ".">>, {})>>]>>],
     [cls |-> "footnote",
      lines |-> <<[x0 |-> 12,
                   spans |-> <<SpanOf(<<"1">>, {1}), SpanOf(<<"c", "d">>, {16})>>]>>],
     [cls |-> "page-header",
      lines |-> <<[x0 |-> 10, spans |-> <<SpanOf(<<"h">>, {})>>]>>],
     [cls |-> "page-footer",
      lines |-> <<[x0 |-> 10, spans |-> <<SpanOf(<<"7">>, {})>>]>>]}

\* Page number p of the document, with the document's spans.
PageView(doc, p) ==
    [heap |-> doc.heap, boxes |-> doc.pages[p].boxes,
     full_ocred |-> doc.pages[p].full_ocred]

\* str(n) of a page number
RECURSIVE Decimal(_)
Decimal(n) ==
    LET digit(d) == <<"0", "1", "2", "3", "4", "5", "6", "7", "8", "9">>[d + 1]
    IN  IF n < 10 THEN <<digit(n)>>
        ELSE Decimal(n \div 10) \o <<digit(n % 10)>>

\* f"--- end of {page.page_number=} ---\n\n"
PageSeparator(page_number) ==
    <<"-", "-", "-", " ", "e", "n", "d", " ", "o", "f", " ",
      "p", "a", "g", "e", ".", "p", "a", "g", "e", "_",
      "n", "u", "m", "b", "e", "r", "=">>
    \o Decimal(page_number) \o <<" ", "-", "-", "-", "\n", "\n">>

\* "skip headers/footers if requested"
BoxSkipped(box, header, footer) ==
    \/ box.boxclass = "page-header" /\ ~header
    \/ box.boxclass = "page-footer" /\ ~footer

\* make_page_chunk: the start of box number i (counted from 0) ...
ChunkStartOwn(string_lengths, i) ==
    string_lengths[i + 1]

ChunkStart(string_lengths, i) ==
    IF i > 0 THEN string_lengths[(i - 1) + 1] ELSE 0

\* ... and the chunk of a page: its number, its text, and for every box of
\* the page its index, class and pos.
make_page_chunk(page_number, boxes, text, string_lengths) ==
    IF Len(boxes) # Len(string_lengths)
    THEN [raised |-> TRUE]
    ELSE [raised |-> FALSE,
          page_number |-> page_number,
          page_boxes |->
            [k \in DOMAIN boxes |->
                [index |-> k - 1,
                 class |-> IF boxes[k].boxclass # "table-fallback"
                           THEN boxes[k].boxclass ELSE "table",
                 pos |-> <<ChunkStart(string_lengths, k - 1),
                           string_lengths[k]>>]],
          text |-> text]

\* The box loop of to_markdown (md) / to_text over one page, from box i on,
\* with the header and footer arguments: the page string so far, its length
\* after every box so far, and (parts) the string each box added to it.
RECURSIVE ChunkLoop(_, _, _, _, _, _, _, _, _)
ChunkLoop(md, doc, levels, header, footer, i, output, string_lengths, parts) ==
    IF i > Len(doc.boxes)
    THEN [raised |-> FALSE, output |-> output,
          string_lengths |-> string_lengths, parts |-> parts, document |-> doc]
    ELSE IF BoxSkipped(doc.boxes[i], header, footer)
    THEN ChunkLoop(md, doc, levels, header, footer, i + 1, output,
                   Append(string_lengths, Len(output)), Append(parts, <<>>))
    ELSE CHOOSE result \in
            {IF r.raised
             THEN [raised |-> TRUE, output |-> <<>>,
                   string_lengths |-> <<>>, parts |-> <<>>,
                   document |-> [doc EXCEPT !.heap = r.heap,
                                            !.boxes[i].textlines = r.textlines]]
             ELSE ChunkLoop(md,
                            [doc EXCEPT !.heap = r.heap,
                                        !.boxes[i].textlines = r.textlines],
                            levels, header, footer, i + 1,
                            output \o r.output,
                            Append(string_lengths, Len(output \o r.output)),
                            Append(parts, r.output)) :
                r \in {SerializeBox(md, doc, levels, i)}} : TRUE

\* The page loop of to_markdown (md) / to_text with page_chunks=True, from
\* page p on: the chunks so far, and the document as the box serializers
\* leave it.
RECURSIVE PageChunkLoop(_, _, _, _, _, _, _, _)
PageChunkLoop(md, doc, header, footer, page_separators, p, document_output, parts) ==
    IF p > Len(doc.pages)
    THEN [raised |-> FALSE, chunks |-> document_output, parts |-> parts,
          document |-> doc]
    ELSE CHOOSE result \in
            {LET left == [doc EXCEPT !.heap = r.document.heap,
                                     !.pages[p].boxes = r.document.boxes]
                 text == IF page_separators
                         THEN r.output \o PageSeparator(p) ELSE r.output
             IN  IF r.raised
                 THEN [raised |-> TRUE, chunks |-> <<>>, parts |-> <<>>,
                       document |-> left]
                 ELSE PageChunkLoop(md, left, header, footer, page_separators,
                        p + 1,
                        Append(document_output,
                               make_page_chunk(p, left.pages[p].boxes, text,
                                               r.string_lengths)),
                        Append(parts, r.parts)) :
                r \in {ChunkLoop(md, PageView(doc, p),
                                 create_list_item_levels(doc.pages[p].boxes),
                                 header, footer, 1, <<>>, <<>>, <<>>)}} : TRUE

\* ParsedDocument.to_markdown(header, footer, page_separators,
\*                            page_chunks=True)
to_markdown_chunks(doc, header, footer, page_separators) ==
    PageChunkLoop(TRUE, doc, header, footer, page_separators, 1, <<>>, <<>>)

\* ParsedDocument.to_text(header, footer, page_chunks=True)
to_text_chunks(doc, header, footer) ==
    PageChunkLoop(FALSE, doc, header, footer, FALSE, 1, <<>>, <<>>)

\* The number of boxes on all pages of the document.
RECURSIVE BoxCount(_)
BoxCount(pages) ==
    IF pages = <<>> THEN 0 ELSE Len(Head(pages).boxes) + BoxCount(Tail(pages))

InitChunks ==
    /\ pc = "input"
    /\ layout_information = <<>>
    /\ blocks = <<>>
    /\ out = <<>>
    /\ document = [heap |-> <<>>,
                   pages |-> <<[boxes |-> <<>>, full_ocred |-> FALSE]>>]

\* parse_document goes on to the next page.
AddChunkPage ==
    /\ pc = "input"
    /\ Len(document.pages) < MaxChunkPages
    /\ document' = [document EXCEPT
                        !.pages = Append(@, [boxes |-> <<>>, full_ocred |-> FALSE])]
    /\ UNCHANGED <<pc, layout_information, blocks, out>>

\* Extraction adds a box to the page parse_document is working on.
AddChunkBox ==
    /\ pc = "input"
    /\ BoxCount(document.pages) < MaxChunkBoxes
    /\ \E b \in ChunkBoxChoices :
          LET p == Len(document.pages)
              with == WithBox(PageView(document, p), b.cls, b.lines)
          IN  document' = [document EXCEPT !.heap = with.heap,
                                           !.pages[p].boxes = with.boxes]
    /\ UNCHANGED <<pc, layout_information, blocks, out>>

\* What a call with page_chunks=True leaves: its arguments, the pages it
\* was given, and its result.
Chunked(call, header, footer, r) ==
    [call |-> call, header |-> header, footer |-> footer,
     pages |-> document.pages, raised |-> r.raised,
     chunks |-> r.chunks, parts |-> r.parts]

\* document.to_markdown(header=..., footer=..., page_separators=...,
\*                      page_chunks=True)
ToMarkdownChunks ==
    /\ pc = "input"
    /\ pc' = "chunked"
    /\ \E header, footer, page_separators \in BOOLEAN :
          \E r \in {to_markdown_chunks(document, header, footer, page_separators)} :
              /\ out' = Chunked("to_markdown", header, footer, r)
              /\ document' = r.document
    /\ UNCHANGED <<layout_information, blocks>>

\* document.to_text(header=..., footer=..., page_chunks=True)
ToTextChunks ==
    /\ pc = "input"
    /\ pc' = "chunked"
    /\ \E header, footer \in BOOLEAN :
          \E r \in {to_text_chunks(document, header, footer)} :
              /\ out' = Chunked("to_text", header, footer, r)
              /\ document' = r.document
    /\ UNCHANGED <<layout_information, blocks>>

NextChunks == AddChunkPage \/ AddChunkBox \/ ToMarkdownChunks \/ ToTextChunks

SpecChunks == InitChunks /\ [][NextChunks]_vars

\* The text of chunk c from offset start up to, not including, offset stop.
ChunkSlice(c, k) ==
    SubSeq(c.text, c.page_boxes[k].pos[1] + 1, c.page_boxes[k].pos[2])

\* C20: in every page chunk that to_markdown or to_text returns with
\* page_chunks=True, page_boxes has one entry per box of the page, in box
\* order; the first pos starts at 0, every other pos starts where the one
\* before it stops, and start <= stop <= len(text); the text between start
\* and stop is what that box added to the page text; and a box left out
\* because of header=False or footer=False has its entry, with start = stop.
C20_PageChunkOffsets ==
    (pc = "chunked" /\ ~out.raised) =>
        /\ Len(out.chunks) = Len(out.pages)
        /\ \A p \in DOMAIN out.chunks :
            LET c == out.chunks[p]
                boxes == out.pages[p].boxes
            IN  /\ ~c.raised
                /\ DOMAIN c.page_boxes = DOMAIN boxes
                /\ \A k \in DOMAIN c.page_boxes :
                    LET start == c.page_boxes[k].pos[1]
                        stop == c.page_boxes[k].pos[2]
                    IN  /\ c.page_boxes[k].index = k - 1
                        /\ start = IF k = 1 THEN 0
                                   ELSE c.page_boxes[k - 1].pos[2]
                        /\ start <= stop
                        /\ stop <= Len(c.text)
                        /\ ChunkSlice(c, k) = out.parts[p][k]
                        /\ BoxSkipped(boxes[k], out.header, out.footer)
                            => start = stop

\* A call returned two chunks: on the first page a box with text is followed
\* by a footer that footer=False leaves out, whose empty range starts after
\* offset 0, and the second page has a box whose text starts at offset 0.
C20_Witness ==
    /\ pc = "chunked"
    /\ ~out.raised
    /\ ~out.footer
    /\ Len(out.chunks) = 2
    /\ Len(out.chunks[1].page_boxes) = 2
    /\ out.chunks[1].page_boxes[2].class = "page-footer"
    /\ out.chunks[1].page_boxes[1].pos[2] > 0
    /\ out.chunks[1].page_boxes[2].pos
        = <<out.chunks[1].page_boxes[1].pos[2], out.chunks[1].page_boxes[1].pos[2]>>
    /\ Len(out.chunks[2].page_boxes) = 1
    /\ out.chunks[2].page_boxes[1].pos[1] = 0
    /\ out.chunks[2].page_boxes[1].pos[2] > 0
    /\ Len(out.chunks[2].text) > out.chunks[2].page_boxes[1].pos[2]

---------------------------------------------------------------------------
(* Specification SpecTableMd: utils.table_to_markdown applied to a table   *)
(* of row_count x col_count cells.  A cell of table["cells"] is None where *)
(* the table finder found no cell of its own at that place (the place      *)
(* belongs to a cell that spans rows or columns); a cell that is there is  *)
(* given with the text extract_cells returns for it.                       *)

MaxRows == 2
MaxCols == 2

\* The texts extract_cells may return for a cell.
CellTexts == {"A", "B"}

\* cells = [[None for i in range(col_count)] for j in range(row_count)]
EmptyGrid(row_count, col_count) ==
    [j \in 1..row_count |-> [i \in 1..col_count |-> None]]

\* "for rows, copy content from left to right": row j from column i on.
RECURSIVE FillRow(_, _)
FillRow(row, i) ==
    IF i > Len(row) - 1 THEN row
    ELSE FillRow(IF row[i + 1] = None THEN [row EXCEPT ![i + 1] = row[i]] ELSE row,
                 i + 1)

\* "for columns, copy top to bottom": column i from row j on.
RECURSIVE FillColumn(_, _, _)
FillColumn(cells, i, j) ==
    IF j > Len(cells) - 1 THEN cells
    ELSE FillColumn(IF cells[j + 1][i] = None
                    THEN [cells EXCEPT ![j + 1][i] = cells[j][i]] ELSE cells,
                    i, j + 1)

RECURSIVE FillColumns(_, _, _)
FillColumns(cells, col_count, i) ==
    IF i > col_count THEN cells
    ELSE FillColumns(FillColumn(cells, i, 1), col_count, i + 1)

\* The two fill loops, lines 1155-1166, on the grid as they find it.
ForwardFill(cells, col_count) ==
    FillColumns([j \in DOMAIN cells |-> FillRow(cells[j], 1)], col_count, 1)

\* Lines 1168-1173: the text of every cell that is there is put in its
\* place of the grid.
ExtractInto(cells, cell_boxes) ==
    [j \in DOMAIN cells |-> [i \in DOMAIN cells[j] |->
        IF cell_boxes[j][i] # None THEN cell_boxes[j][i] ELSE cells[j][i]]]

\* Lines 1174-1179: a header cell that is None takes the text of the header
\* cell to its left, the first one the empty string.
RECURSIVE HeaderLoop(_, _)
HeaderLoop(row, i) ==
    IF i > Len(row) THEN row
    ELSE HeaderLoop(IF row[i] = None
                    THEN [row EXCEPT ![i] = IF i > 1 THEN row[i - 1]
                                            ELSE [text |-> ""]]
                    ELSE row,
                    i + 1)

\* A detail row as line 1191-1198 writes it: "|", then every cell's text
\* ("" for None) followed by "|", then the line end.
DetailLine(row) ==
    <<"|">>
    \o Concat([i \in DOMAIN row |->
                <<IF row[i] = None THEN "" ELSE row[i].text, "|">>])
    \o <<"\n">>

\* "|" + "|".join(cells[0]) + "|\n"
HeaderLine(row) ==
    <<"|">>
    \o Concat([i \in DOMAIN row |->
                IF i = 1 THEN <<row[i].text>> ELSE <<"|", row[i].text>>])
    \o <<"|", "\n">>

\* "|" + "|".join("---" for i in range(col_count)) + "|\n"
SeparatorLine(col_count) ==
    <<"|">>
    \o Concat([i \in 1..col_count |->
                IF i = 1 THEN <<"---">> ELSE <<"|", "---">>])
    \o <<"|", "\n">>

\* The order of the steps as the fill-first version has them: the fill
\* loops run on the grid after the cell texts are in it.
table_to_markdown_fill_last(table) ==
    LET filled == ForwardFill(ExtractInto(EmptyGrid(table.row_count, table.col_count),
                                          table.cells),
                              table.col_count)
        cells == [filled EXCEPT ![1] = HeaderLoop(filled[1], 1)]
    IN  HeaderLine(cells[1]) \o SeparatorLine(table.col_count)
        \o Concat([j \in 1..(Len(cells) - 1) |-> DetailLine(cells[j + 1])])
        \o <<"\n">>

\* utils.table_to_markdown(table_blocks, table_item): the pieces of the
\* string it returns.
table_to_markdown(table) ==
    LET filled == ForwardFill(EmptyGrid(table.row_count, table.col_count),
                              table.col_count)
        texts == ExtractInto(filled, table.cells)
        cells == [texts EXCEPT ![1] = HeaderLoop(texts[1], 1)]
    IN  HeaderLine(cells[1]) \o SeparatorLine(table.col_count)
        \o Concat([j \in 1..(Len(cells) - 1) |-> DetailLine(cells[j + 1])])
        \o <<"\n">>

\* The table finder delivers a table of any size, no cell found yet.
InitTableMd ==
    /\ pc = "input"
    /\ layout_information = <<>>
    /\ blocks = <<>>
    /\ out = <<>>
    /\ \E row_count \in 1..MaxRows, col_count \in 1..MaxCols :
          document = [row_count |-> row_count, col_count |-> col_count,
                      cells |-> EmptyGrid(row_count, col_count)]

\* The table finder finds a cell, with text in it.
AddCell ==
    /\ pc = "input"
    /\ \E j \in 1..document.row_count, i \in 1..document.col_count,
          text \in CellTexts :
          /\ document.cells[j][i] = None
          /\ document' = [document EXCEPT !.cells[j][i] = [text |-> text]]
    /\ UNCHANGED <<pc, layout_information, blocks, out>>

\* layoutbox.table["markdown"] = utils.table_to_markdown(...)
TableToMarkdown ==
    /\ pc = "input"
    /\ pc' = "rendered"
    /\ \E markdown \in {table_to_markdown(document)} :
          out' = [markdown |-> markdown]
    /\ UNCHANGED <<layout_information, blocks, document>>

NextTableMd == AddCell \/ TableToMarkdown

SpecTableMd == InitTableMd /\ [][NextTableMd]_vars

\* The Markdown grid of a table whose cells hold the given texts.
MarkdownGrid(texts) ==
    <<"|">> \o Concat([i \in DOMAIN texts[1] |->
                        IF i = 1 THEN <<texts[1][i]>> ELSE <<"|", texts[1][i]>>])
    \o <<"|", "\n">>
    \o SeparatorLine(Len(texts[1]))
    \o Concat([j \in 1..(Len(texts) - 1) |->
                <<"|">> \o Concat([i \in DOMAIN texts[j + 1] |->
                                    <<texts[j + 1][i], "|">>]) \o <<"\n">>])
    \o <<"\n">>

AllPopulated(table) ==
    \A j \in DOMAIN table.cells : \A i \in DOMAIN table.cells[j] :
        table.cells[j][i] # None

OnlyTopLeft(table) ==
    \A j \in DOMAIN table.cells : \A i \in DOMAIN table.cells[j] :
        table.cells[j][i] # None <=> (j = 1 /\ i = 1)

\* C21: the Markdown grid of a table with every cell populated shows every
\* cell's own text, and the grid of a table with only the top-left cell
\* populated shows that cell's text in every cell of every row.
C21_TableForwardFill ==
    pc = "rendered" =>
        /\ AllPopulated(document) =>
            out.markdown = MarkdownGrid(
                [j \in DOMAIN document.cells |->
                    [i \in DOMAIN document.cells[j] |-> document.cells[j][i].text]])
        /\ OnlyTopLeft(document) =>
            out.markdown = MarkdownGrid(
                [j \in DOMAIN document.cells |->
                    [i \in DOMAIN document.cells[j] |-> document.cells[1][1].text]])

---------------------------------------------------------------------------
(* Specification SpecLevels: create_list_item_levels applied to the box    *)
(* list of a page, built box by box.                                       *)

MaxLevelBoxes == 3

\* The boxes of the page: list items that start at x = 10, 20 or 25 in the
\* left column, near the top of the page or further down, a list item in
\* the right column, and a paragraph.
LevelBoxChoices ==
    {[boxclass |-> "list-item", x0 |-> x, y0 |-> y, x1 |-> 100, y1 |-> y + 10] :
        x \in {10, 20, 25}, y \in {0, 50}}
    \cup {[boxclass |-> "list-item", x0 |-> 120, y0 |-> 50, x1 |-> 200, y1 |-> 60],
          [boxclass |-> "text", x0 |-> 10, y0 |-> 30, x1 |-> 100, y1 |-> 40]}

InitLevels ==
    /\ pc = "input"
    /\ layout_information = <<>>
    /\ blocks = <<>>
    /\ out = <<>>
    /\ document = [boxes |-> <<>>]

\* The page gets one more box.
AddLevelBox ==
    /\ pc = "input"
    /\ Len(document.boxes) < MaxLevelBoxes
    /\ \E b \in LevelBoxChoices :
          document' = [document EXCEPT !.boxes = Append(@, b)]
    /\ UNCHANGED <<pc, layout_information, blocks, out>>

\* list_item_levels = create_list_item_levels(page.boxes)
CreateListItemLevels ==
    /\ pc = "input"
    /\ pc' = "leveled"
    /\ \E item_dict \in {create_list_item_levels(document.boxes)} :
          out' = [item_dict |-> item_dict]
    /\ UNCHANGED <<layout_information, blocks, document>>

NextLevels == AddLevelBox \/ CreateListItemLevels

SpecLevels == InitLevels /\ [][NextLevels]_vars

\* The segments of contiguous list items of the page, each sorted by left
\* edge (items with the same left edge stay in page order).
SortedSegments ==
    LET segments == SegmentLoop(document.boxes, 1, <<>>, <<>>)
    IN  [n \in DOMAIN segments |->
            SortedByKey(segments[n],
                        [k \in DOMAIN segments[n] |->
                            document.boxes[segments[n][k]].x0])]

\* Every list item has a level and no other box has one; the first item of
\* every sorted segment has level 1, and each following item has the level
\* of the item before it, plus 1 if Up holds of the two.
LevelsFollow(Up(_, _)) ==
    /\ DOMAIN out.item_dict
        = {i \in DOMAIN document.boxes : document.boxes[i].boxclass = "list-item"}
    /\ \A n \in DOMAIN SortedSegments :
        LET s == SortedSegments[n]
        IN  /\ out.item_dict[s[1]] = 1
            /\ \A k \in 2..Len(s) :
                out.item_dict[s[k]] =
                    out.item_dict[s[k - 1]]
                    + IF Up(document.boxes[s[k - 1]], document.boxes[s[k]])
                      THEN 1 ELSE 0

AtLeastTenRight(prev, box) == box.x0 - prev.x0 >= 10
MoreThanTenRight(prev, box) == box.x0 - prev.x0 > 10

\* C22 as stated: every list-item box and no other box gets a level; in a
\* segment sorted by left edge the first item has level 1 and each following
\* item has the level of the item before it, plus 1 when its left edge is 10
\* units or more to the right of that item's left edge.
C22_ListItemLevels ==
    pc = "leveled" => LevelsFollow(AtLeastTenRight)

\* C22 with the step the code takes: the level goes up by 1 when the left
\* edge is more than 10 units to the right of the left edge of the item
\* before it, and stays as it is otherwise.
C22_ListItemLevelsMoreThanTen ==
    pc = "leveled" => LevelsFollow(MoreThanTenRight)

\* Three list items with left edges 10, 10, 25 in one segment got the
\* levels 1, 1, 2.
C22_Witness ==
    /\ pc = "leveled"
    /\ Len(document.boxes) = 3
    /\ \A i \in 1..3 : document.boxes[i].boxclass = "list-item"
    /\ [i \in 1..3 |-> document.boxes[i].x0] = <<10, 10, 25>>
    /\ Len(SortedSegments) = 1
    /\ [i \in 1..3 |-> out.item_dict[i]] = <<1, 1, 2>>

---------------------------------------------------------------------------
(* Specification SpecStyled: get_styled_text applied to the spans of a     *)
(* paragraph, which text extraction delivers span by span: a span goes on  *)
(* in the line of the span before it, or starts the next line.             *)

MaxSpans == 2

\* The texts of the spans: words that end with a hyphen after four, two
\* and one letters, and words without a hyphen.
StyledTextChoices ==
    {<<"e", "x", "a", "m", "-">>, <<"a", "b", "-">>, <<"a", "-">>,
     <<"p", "l", "e">>, <<"o", "k">>}

\* The flags of the spans: plain or bold.
StyledFlagChoices == {{}, {16}}

InitStyled ==
    /\ pc = "input"
    /\ layout_information = <<>>
    /\ blocks = <<>>
    /\ out = <<>>
    /\ document = [spans |-> <<>>]

\* Text extraction delivers the next span of the paragraph.
AddSpan ==
    /\ pc = "input"
    /\ Len(document.spans) < MaxSpans
    /\ \E text \in StyledTextChoices, flags \in StyledFlagChoices,
          newline \in BOOLEAN :
          LET n == Len(document.spans)
              line == IF n = 0 THEN 0
                      ELSE document.spans[n].line + (IF newline THEN 1 ELSE 0)
          IN  /\ n = 0 => ~newline
              /\ document' = [document EXCEPT
                    !.spans = Append(@, [SpanOf(text, flags) EXCEPT
                                            !.block = 1, !.line = line])]
    /\ UNCHANGED <<pc, layout_information, blocks, out>>

\* get_styled_text(spans)
GetStyledText ==
    /\ pc = "input"
    /\ document.spans # <<>>
    /\ pc' = "styled"
    /\ \E output \in {get_styled_text(document.spans)} :
          out' = [output |-> output]
    /\ UNCHANGED <<layout_information, blocks, document>>

NextStyled == AddSpan \/ GetStyledText

SpecStyled == InitStyled /\ [][NextStyled]_vars

\* The characters of a string that are not Markdown style marks.
RECURSIVE Unstyled(_)
Unstyled(s) ==
    IF s = <<>> THEN <<>>
    ELSE IF Head(s) \in {"*", "_", "~", "<U+0060>"} THEN Unstyled(Tail(s))
    ELSE <<Head(s)>> \o Unstyled(Tail(s))

\* The number of characters of the word a trailing hyphen is attached to.
HyphenatedWordLen(text) == LastWordLen(text) - 1

\* C23 for a paragraph of two spans, the first of which ends with a hyphen:
\* if the second span is of another block or line and the hyphen is attached
\* to a word of at least 3 characters, the hyphen is stripped and the two
\* parts are joined without a space; if the word has fewer than 3 characters
\* or the two spans are of the same block and line, the hyphen and the space
\* after it stay.
C23_HyphenationRepair ==
    (/\ pc = "styled"
     /\ Len(document.spans) = 2
     /\ EndsWith(document.spans[1].text, <<"-">>)) =>
        LET s1 == document.spans[1]
            s2 == document.spans[2]
            repaired == DropLast(s1.text, 1) \o s2.text \o <<" ">>
            as_is == s1.text \o <<" ">> \o s2.text \o <<" ">>
        IN  Unstyled(out.output) =
                IF /\ <<s1.block, s1.line>> # <<s2.block, s2.line>>
                   /\ HyphenatedWordLen(s1.text) >= 3
                THEN repaired ELSE as_is

---------------------------------------------------------------------------
(* Specification SpecCells: utils.extract_cells (markdown=False, as        *)
(* table_extract calls it) applied to one text block and the cell          *)
(* Rect(0, 0, 10, 20).  The block is built character by character: a       *)
(* character goes on in the span before it, or starts the next span of the *)
(* line, or starts the next line.  None of the characters is "$", so the   *)
(* replacements at the end of extract_cells leave the text as it is.       *)

MaxCellChars == 3

CellRect == Rect(0, 0, 10, 20)

\* The letter of the n-th character of the block.
Letters == <<"a", "b", "c", "d", "e", "f">>

\* Where a character lies across the width of the cell (its height is
\* inside the cell): inside, half inside, two thirds inside, outside, of
\* width zero inside, and a blank that is one third inside.
CellCharChoices ==
    {[white |-> FALSE, x0 |-> 4, x1 |-> 6],
     [white |-> FALSE, x0 |-> 9, x1 |-> 11],
     [white |-> FALSE, x0 |-> 8, x1 |-> 11],
     [white |-> FALSE, x0 |-> 10, x1 |-> 12],
     [white |-> FALSE, x0 |-> 5, x1 |-> 5],
     [white |-> TRUE, x0 |-> 9, x1 |-> 12]}

\* almost_in_bbox(bbox, clip, portion=0.5), with the test of at least half
\* in place of more than half right before it.
almost_in_bbox_at_least(bbox, clip) ==
    LET inter_area == Max(0, Min(bbox.x1, clip.x1) - Max(bbox.x0, clip.x0))
                      * Max(0, Min(bbox.y1, clip.y1) - Max(bbox.y0, clip.y0))
        box_area == (bbox.x1 - bbox.x0) * (bbox.y1 - bbox.y0)
    IN  2 * inter_area >= box_area

almost_in_bbox(bbox, clip) ==
    LET inter_area == Max(0, Min(bbox.x1, clip.x1) - Max(bbox.x0, clip.x0))
                      * Max(0, Min(bbox.y1, clip.y1) - Max(bbox.y0, clip.y0))
        box_area == (bbox.x1 - bbox.x0) * (bbox.y1 - bbox.y0)
    IN  2 * inter_area > box_area

\* The bounding box of a span (of its characters) and of a line (of its
\* spans), as text extraction delivers them.
JoinedBBox(bboxes) ==
    Rect(SetMin({b.x0 : b \in Range(bboxes)}), SetMin({b.y0 : b \in Range(bboxes)}),
         SetMax({b.x1 : b \in Range(bboxes)}), SetMax({b.y1 : b \in Range(bboxes)}))
SpanBBox(span) == JoinedBBox([k \in DOMAIN span |-> span[k].bbox])
LineBBox(line) == JoinedBBox([k \in DOMAIN line |-> SpanBBox(line[k])])

\* span["text"]
CellSpanText(span) == [k \in DOMAIN span |-> span[k].c]

\* "compose span text from chars": the loop over span["chars"] from
\* character k on.
RECURSIVE CharLoop(_, _, _, _)
CharLoop(span, cell, k, span_text) ==
    IF k > Len(span) THEN span_text
    ELSE CharLoop(span, cell, k + 1,
            IF almost_in_bbox(span[k].bbox, cell) THEN Append(span_text, span[k].c)
            ELSE IF span[k].c \in WhiteChars THEN Append(span_text, " ")
            ELSE span_text)

\* The loop over line["spans"] from span n on.
RECURSIVE CellSpanLoop(_, _, _, _, _)
CellSpanLoop(line, cell, ocrpage, n, text) ==
    IF n > Len(line) THEN text
    ELSE IF outside_bbox(SpanBBox(line[n]), cell)
    THEN CellSpanLoop(line, cell, ocrpage, n + 1, text)
    ELSE CHOOSE result \in
            {CellSpanLoop(line, cell, ocrpage, n + 1, text \o span_text) :
                span_text \in {IF ocrpage THEN CellSpanText(line[n])
                               ELSE CharLoop(line[n], cell, 1, <<>>)}} : TRUE

\* The loop over block["lines"] from line l on.
RECURSIVE CellLineLoop(_, _, _, _, _)
CellLineLoop(lines, cell, ocrpage, l, text) ==
    IF l > Len(lines) THEN text
    ELSE IF outside_bbox(LineBBox(lines[l]), cell)
    THEN CellLineLoop(lines, cell, ocrpage, l + 1, text)
    ELSE CellLineLoop(lines, cell, ocrpage, l + 1,
            CellSpanLoop(lines[l], cell, ocrpage, 1,
                         IF text # <<>> THEN Append(text, "\n") ELSE text))

\* extract_cells(table_blocks, cell, markdown=False, ocrpage) for
\* table_blocks of one block with the given lines.
extract_cells(lines, cell, ocrpage) ==
    IF lines = <<>>
       \/ outside_bbox(JoinedBBox([l \in DOMAIN lines |-> LineBBox(lines[l])]), cell)
    THEN <<>>
    ELSE Strip(CellLineLoop(lines, cell, ocrpage, 1, <<>>))

\* The number of characters in the block.
CellCharCount(lines) ==
    Len(Concat([l \in DOMAIN lines |-> Concat(lines[l])]))

\* The page is a native page or an OCR-derived page.
InitCells ==
    /\ pc = "input"
    /\ layout_information = <<>>
    /\ blocks = <<>>
    /\ out = <<>>
    /\ \E ocrpage \in BOOLEAN :
          document = [lines |-> <<>>, ocrpage |-> ocrpage]

\* Text extraction delivers the next character of the block.
AddCellChar ==
    /\ pc = "input"
    /\ CellCharCount(document.lines) < MaxCellChars
    /\ \E ch \in CellCharChoices, place \in {"span", "next span", "next line"} :
          LET lines == document.lines
              nl == Len(lines)
              y0 == IF place = "next line" THEN 10 * nl + 2 ELSE 10 * (nl - 1) + 2
              char == [c |-> IF ch.white THEN " "
                             ELSE Letters[CellCharCount(lines) + 1],
                       bbox |-> Rect(ch.x0, y0, ch.x1, y0 + 6)]
          IN  /\ lines = <<>> => place = "next line"
              /\ Len(lines) = 2 => place # "next line"
              /\ document' = [document EXCEPT !.lines =
                    IF place = "next line" THEN Append(lines, <<<<char>>>>)
                    ELSE IF place = "next span"
                    THEN [lines EXCEPT ![nl] = Append(@, <<char>>)]
                    ELSE [lines EXCEPT ![nl][Len(lines[nl])] = Append(@, char)]]
    /\ UNCHANGED <<pc, layout_information, blocks, out>>

\* cells[i][j] = extract_cells(table_blocks, cell_boxes[i][j],
\*                             markdown=False, ocrpage=ocrpage)
ExtractCells ==
    /\ pc = "input"
    /\ pc' = "extracted"
    /\ \E text \in {extract_cells(document.lines, CellRect, document.ocrpage)} :
          out' = [text |-> text]
    /\ UNCHANGED <<layout_information, blocks, document>>

NextCells == AddCellChar \/ ExtractCells

SpecCells == InitCells /\ [][NextCells]_vars

\* The characters of the spans that overlap the cell.
OverlappingChars ==
    UNION {Range(document.lines[l][n]) :
            <<l, n>> \in {p \in (DOMAIN document.lines) \X (1..MaxCellChars + 1) :
                /\ p[2] \in DOMAIN document.lines[p[1]]
                /\ ~outside_bbox(LineBBox(document.lines[p[1]]), CellRect)
                /\ ~outside_bbox(SpanBBox(document.lines[p[1]][p[2]]), CellRect)}}

\* Twice the area of the character's bounding box that lies inside the
\* cell, and the area of the bounding box.
TwiceInside(char) ==
    2 * Max(0, Min(char.bbox.x1, CellRect.x1) - Max(char.bbox.x0, CellRect.x0))
      * Max(0, Min(char.bbox.y1, CellRect.y1) - Max(char.bbox.y0, CellRect.y0))
CharArea(char) ==
    (char.bbox.x1 - char.bbox.x0) * (char.bbox.y1 - char.bbox.y0)

\* On an OCR-derived page the text of the cell is the whole text of every
\* overlapping span, line after line.
WholeSpansOnOcrPage ==
    (pc = "extracted" /\ document.ocrpage) =>
        \A l \in DOMAIN document.lines : \A n \in DOMAIN document.lines[l] :
            \A k \in DOMAIN document.lines[l][n] :
                LET char == document.lines[l][n][k]
                IN  char.c # " " =>
                        (char.c \in Range(out.text) <=> char \in OverlappingChars)

\* C24 as stated: on a native page a character of an overlapping span is in
\* the cell's text exactly when at least 50% of the area of its bounding box
\* lies inside the cell; on an OCR-derived page the whole text of every
\* overlapping span is taken.
C24_CellCharacterFilter ==
    /\ (pc = "extracted" /\ ~document.ocrpage) =>
            \A char \in OverlappingChars :
                char.c # " " =>
                    (char.c \in Range(out.text) <=> TwiceInside(char) >= CharArea(char))
    /\ WholeSpansOnOcrPage

\* C24 with the test the code makes: a character of an overlapping span is
\* in the cell's text exactly when more than 50% of the area of its
\* bounding box lies inside the cell.
C24_CellCharacterFilterMoreThanHalf ==
    /\ (pc = "extracted" /\ ~document.ocrpage) =>
            \A char \in OverlappingChars :
                char.c # " " =>
                    (char.c \in Range(out.text) <=> TwiceInside(char) > CharArea(char))
    /\ WholeSpansOnOcrPage

\* On a native page a span straddles the edge of the cell: its first
\* character, two thirds inside, is in the cell's text, its second, exactly
\* half inside, is not.
C24_Witness ==
    /\ pc = "extracted"
    /\ ~document.ocrpage
    /\ Len(document.lines) = 1
    /\ Len(document.lines[1]) = 1
    /\ Len(document.lines[1][1]) = 2
    /\ document.lines[1][1][1].bbox = Rect(8, 2, 11, 8)
    /\ document.lines[1][1][2].bbox = Rect(9, 2, 11, 8)
    /\ out.text = <<"a">>

---------------------------------------------------------------------------
(* Specification SpecOrphans: the box repair of one page (clean_pictures,  *)
(* then add_image_orphans, possibly run once more) on the repair page, for *)
(* pages that hold images and vector graphics of any size.                 *)

\* Content primitives of the page: an image, an image of 96 % of the page,
\* a vector graphic on the left half of the page, one on the right half
\* that overlaps it, and a small one.
OrphanBlockChoices ==
    {ImageBlock(Rect(140, 0, 180, 40)), ImageBlock(Rect(0, 0, 230, 40)),
     VectorBlock(Rect(0, 0, 120, 40)), VectorBlock(Rect(110, 0, 240, 40)),
     VectorBlock(Rect(200, 0, 236, 40))}

\* Extraction reports one more image or vector graphic.
AddOrphanBlock ==
    /\ pc = "input"
    /\ Len(blocks) < MaxBlocks
    /\ \E b \in OrphanBlockChoices : blocks' = Append(blocks, b)
    /\ UNCHANGED <<pc, layout_information, out, document>>

NextOrphans == AddLayoutBox \/ AddOrphanBlock \/ CleanPictures \/ AddImageOrphans

SpecOrphans == InitRepair /\ [][NextOrphans]_vars

\* A step of add_image_orphans.
OrphansStep ==
    /\ pc \in {"extended", "extended_again"}
    /\ pc' \in {"repaired", "repaired_again"}

\* add_image_orphans leaves every box that was in the list as it was.
OrphansKeepBoxes ==
    /\ Len(layout_information') >= Len(layout_information)
    /\ SubSeq(layout_information', 1, Len(layout_information)) = layout_information

\* C25: every box add_image_orphans appends is a 'picture' of an area of at
\* most 90 % of the page area, and the boxes that were in the list before
\* are neither changed nor removed.
C25_OrphanAreaBound ==
    [][OrphansStep =>
        /\ OrphansKeepBoxes
        /\ \A i \in (Len(layout_information) + 1)..Len(layout_information') :
            /\ layout_information'[i].cls = "picture"
            /\ 10 * RectArea(RectOf(layout_information'[i]))
                <= 9 * RectArea(repair_page_rect)]_vars


(***************************************************************************)
(* C26: the body ordering of find_reading_order (utils.py:853-897).        *)
(* The specification is Spec: the classifier's boxes, zero-width and       *)
(* zero-height boxes among them, then find_reading_order.                  *)
(***************************************************************************)

\* C26: body ordering loses nothing: the list find_reading_order returns is
\* a permutation of filter_contained(input), each surviving box emitted
\* exactly once, also for boxes of zero width or height.
C26_BodyPermutation == Returned => IsPermutation(out.final, out.filtered)


(***************************************************************************)
(* C27: the columns of a stripe (cluster_columns_in_stripe,                *)
(* utils.py:711-781), read off the stripes find_reading_order built under  *)
(* Spec.                                                                   *)
(***************************************************************************)

\* A solitary of the stripe: no sibling (a box different from it) reaches
\* into its band widened to the stripe's width.
BandIsFree(stripe, i) ==
    \A j \in DOMAIN stripe :
        stripe[j] # stripe[i] => outside_bbox(stripe[j], Expanded(stripe[i], stripe))

Positions(emitted, b) == {p \in DOMAIN emitted : emitted[p] = b}

\* Every solitary is a column of its own; a box above it is emitted before
\* it and a box below it after it.
SolitaryOrdered(stripe, cols) ==
    LET emitted == Concat(cols)
    IN  \A i \in DOMAIN stripe : BandIsFree(stripe, i) =>
          /\ \E c \in DOMAIN cols : cols[c] = <<stripe[i]>>
          /\ \A j \in DOMAIN stripe \ {i} :
                /\ stripe[j].y1 <= stripe[i].y0 =>
                      /\ Positions(emitted, stripe[j]) # {}
                      /\ \A p \in Positions(emitted, stripe[j]),
                            q \in Positions(emitted, stripe[i]) : p < q
                /\ stripe[j].y0 >= stripe[i].y1 =>
                      /\ Positions(emitted, stripe[j]) # {}
                      /\ \A p \in Positions(emitted, stripe[j]),
                            q \in Positions(emitted, stripe[i]) : p > q

SolitaryColumn(stripe, col) ==
    \E i \in DOMAIN stripe : BandIsFree(stripe, i) /\ col = <<stripe[i]>>

\* The other columns: top to bottom inside; every box but the leftmost
\* starts at most HORIZONTAL_GAP right of a box left of it in the column;
\* the next column of the same sub-band starts more than HORIZONTAL_GAP
\* right of everything in the column before it.
SubBandColumns(stripe, cols) ==
    /\ \A c \in DOMAIN cols : ~SolitaryColumn(stripe, cols[c]) =>
          /\ cols[c] # <<>>
          /\ \A a, b \in DOMAIN cols[c] : a < b => cols[c][a].y0 <= cols[c][b].y0
          /\ \A b \in DOMAIN cols[c] :
                \/ \A a \in DOMAIN cols[c] : cols[c][b].x0 <= cols[c][a].x0
                \/ \E a \in DOMAIN cols[c] \ {b} :
                      /\ cols[c][a].x0 <= cols[c][b].x0
                      /\ cols[c][b].x0 - cols[c][a].x1 <= HORIZONTAL_GAP
    /\ \A c \in DOMAIN cols :
          (/\ c > 1
           /\ ~SolitaryColumn(stripe, cols[c])
           /\ ~SolitaryColumn(stripe, cols[c - 1]))
          => SetMin({cols[c][a].x0 : a \in DOMAIN cols[c]})
               - SetMax({cols[c - 1][a].x1 : a \in DOMAIN cols[c - 1]})
             > HORIZONTAL_GAP

\* C27: solitary ordering: in every stripe each solitary box is emitted as
\* a single-element column, after every box above it and before every box
\* below it, and the boxes between solitaries are emitted column by column
\* left to right and top to bottom inside a column.
C27_SolitaryOrdering ==
    Returned =>
        \A k \in DOMAIN out.stripes :
            LET cols == cluster_columns_in_stripe(out.stripes[k])
            IN  /\ SolitaryOrdered(out.stripes[k], cols)
                /\ SubBandColumns(out.stripes[k], cols)


(***************************************************************************)
(* C28: the OCR outcome of a page (document_layout.py:982-1053), under     *)
(* SpecDoc.                                                                *)
(***************************************************************************)

\* OCR is switched off for the call: use_ocr False and no force_ocr.
OcrDisabled == ~out.args.use_ocr /\ ~out.args.force_ocr

\* The page counts as carrying OCR text: its decision says has_ocr_text
\* (set by the page analysis, or by the forced OCR of the page).
CarriesOcrText == out.last.decision.has_ocr_text

\* C28: every page ends in one OCR outcome: no PageLayout has full_ocred
\* and text_ocred both True; a page that carries OCR text is not OCR'd and
\* not glyph-repaired, a force-OCR'd page gets nothing but the forced call
\* of ocr_function; and with OCR disabled (use_ocr False, no force_ocr) no
\* page is OCR'd or repaired.
C28_OneOcrOutcome ==
    /\ \A p \in DOMAIN document :
          p = "pages" =>
             \A k \in DOMAIN document.pages :
                ~(document.pages[k].full_ocred /\ document.pages[k].text_ocred)
    /\ PageSeen =>
          /\ ~(out.last.full_ocred /\ out.last.text_ocred)
          /\ (CarriesOcrText /\ ~out.args.force_ocr) =>
                /\ out.last.ocr = {}
                /\ out.last.full_ocred /\ ~out.last.text_ocred
          /\ out.args.force_ocr =>
                /\ out.last.ocr \subseteq {"ocr_function"}
                /\ out.last.full_ocred /\ ~out.last.text_ocred
          /\ OcrDisabled =>
                /\ out.last.ocr = {}
                /\ ~out.last.text_ocred
                /\ out.last.full_ocred = out.last.decision.has_ocr_text

\* A call with OCR disabled returned a document of two pages, neither
\* OCR'd nor repaired, the last of them carrying text of an earlier OCR.
C28_Witness ==
    /\ pc = "returned"
    /\ OcrDisabled
    /\ out.last # None
    /\ CarriesOcrText
    /\ out.last.ocr = {}
    /\ Len(document.pages) = 2
    /\ ~document.pages[1].full_ocred /\ ~document.pages[1].text_ocred
    /\ document.pages[2].full_ocred /\ ~document.pages[2].text_ocred


(***************************************************************************)
(* components_check (image_quality.py:195-268): connected components of a  *)
(* binary image, two passes over the pixels with a union-find of the       *)
(* provisional labels.  An image is [h, w, px]: px[y * w + x] says whether *)
(* pixel (y, x) is foreground (img = binary_img != 0).  parent and rank    *)
(* are arrays of max_labels entries, index 0 .. max_labels - 1; an index   *)
(* beyond that raises IndexError.                                          *)
(***************************************************************************)

MaxH == 3
MaxW == 3
ComponentsThreshold == 10

\* The binary images of up to maxh rows and maxw columns.
ImagesUpTo(maxh, maxw) ==
    UNION {{[h |-> h, w |-> w, px |-> px] : px \in [0..(h * w - 1) -> BOOLEAN]} :
              <<h, w>> \in (1..maxh) \X (1..maxw)}

\* find(x) with path halving; the parent array as it is afterwards.
RECURSIVE find(_, _)
find(parent, x) ==
    IF x \notin DOMAIN parent
    THEN [parent |-> parent, root |-> x, raised |-> TRUE]
    ELSE IF parent[x] = x
    THEN [parent |-> parent, root |-> x, raised |-> FALSE]
    ELSE IF parent[x] \notin DOMAIN parent
    THEN [parent |-> parent, root |-> x, raised |-> TRUE]
    ELSE LET halved == [parent EXCEPT ![x] = parent[parent[x]]]
         IN  find(halved, halved[x])

\* union(a, b) on uf = [parent, rank, raised].
union(uf, a, b) ==
    LET fa == find(uf.parent, a)
        fb == find(fa.parent, b)
        ra == fa.root
        rb == fb.root
    IN  IF fa.raised THEN [uf EXCEPT !.parent = fa.parent, !.raised = TRUE]
        ELSE IF fb.raised THEN [uf EXCEPT !.parent = fb.parent, !.raised = TRUE]
        ELSE IF ra = rb THEN [uf EXCEPT !.parent = fb.parent]
        ELSE IF uf.rank[ra] < uf.rank[rb]
        THEN [uf EXCEPT !.parent = [fb.parent EXCEPT ![ra] = rb]]
        ELSE IF uf.rank[ra] > uf.rank[rb]
        THEN [uf EXCEPT !.parent = [fb.parent EXCEPT ![rb] = ra]]
        ELSE [uf EXCEPT !.parent = [fb.parent EXCEPT ![rb] = ra],
                        !.rank = [@ EXCEPT ![ra] = @ + 1]]

\* The left/top neighbours of (y, x) in the order of the first pass.
LeftTopOffsets == <<<<-1, -1>>, <<-1, 0>>, <<-1, 1>>, <<0, -1>>>>

\* The labels (> 0) of the left/top neighbours of pixel k inside the image.
NeighborLabels(image, labels, k) ==
    LET y == k \div image.w
        x == k % image.w
        inside == {i \in DOMAIN LeftTopOffsets :
                     LET ny == y + LeftTopOffsets[i][1]
                         nx == x + LeftTopOffsets[i][2]
                     IN  /\ 0 <= ny /\ ny < image.h /\ 0 <= nx /\ nx < image.w
                         /\ labels[ny * image.w + nx] > 0}
    IN  Keep([i \in DOMAIN LeftTopOffsets |->
                 IF i \in inside
                 THEN labels[(y + LeftTopOffsets[i][1]) * image.w
                             + x + LeftTopOffsets[i][2]]
                 ELSE 0],
             inside)

\* for n in neighbors: if n != m: union(m, n)
RECURSIVE UnionLoop(_, _, _)
UnionLoop(uf, m, neighbors) ==
    IF neighbors = <<>> \/ uf.raised THEN uf
    ELSE UnionLoop(IF Head(neighbors) # m THEN union(uf, m, Head(neighbors)) ELSE uf,
                   m, Tail(neighbors))

\* First pass: pixel k gets a new label when no labelled neighbour is left
\* or above, else the smallest neighbour label, which is united with the
\* others.
RECURSIVE FirstPass(_, _, _)
FirstPass(image, st, k) ==
    IF k >= image.h * image.w \/ st.raised THEN st
    ELSE IF ~image.px[k] THEN FirstPass(image, st, k + 1)
    ELSE LET neighbors == NeighborLabels(image, st.labels, k)
         IN  IF neighbors = <<>>
             THEN FirstPass(image,
                            [st EXCEPT !.labels = [@ EXCEPT ![k] = st.next_label],
                                       !.next_label = @ + 1],
                            k + 1)
             ELSE LET m == SetMin(Range(neighbors))
                      uf == UnionLoop([parent |-> st.parent, rank |-> st.rank,
                                       raised |-> FALSE], m, neighbors)
                  IN  FirstPass(image,
                                [st EXCEPT !.labels = [@ EXCEPT ![k] = m],
                                           !.parent = uf.parent,
                                           !.rank = uf.rank,
                                           !.raised = uf.raised],
                                k + 1)

\* Second pass: every labelled pixel is mapped to the number of its root;
\* label_map holds the roots in the order they got their number.
RECURSIVE SecondPass(_, _, _)
SecondPass(image, st, k) ==
    IF k >= image.h * image.w \/ st.raised THEN st
    ELSE IF st.labels[k] = 0 THEN SecondPass(image, st, k + 1)
    ELSE LET f == find(st.parent, st.labels[k])
         IN  IF f.raised THEN [st EXCEPT !.raised = TRUE]
             ELSE SecondPass(image,
                             [st EXCEPT !.parent = f.parent,
                                        !.label_map =
                                            IF f.root \in Range(@) THEN @
                                            ELSE Append(@, f.root)],
                             k + 1)

components_check(image) ==
    LET max_labels == (image.h * image.w) \div 2 + 1
        start == [labels |-> [k \in 0..(image.h * image.w - 1) |-> 0],
                  parent |-> [i \in 0..(max_labels - 1) |-> i],
                  rank |-> [i \in 0..(max_labels - 1) |-> 0],
                  next_label |-> 1,
                  label_map |-> <<>>,
                  raised |-> FALSE]
        first == FirstPass(image, start, 0)
        second == SecondPass(image, first, 0)
        components == Len(second.label_map)
    IN  IF second.raised
        THEN [raises |-> "IndexError", components |-> 0, passed |-> FALSE,
              next_label |-> first.next_label, max_labels |-> max_labels]
        ELSE [raises |-> "", components |-> components,
              passed |-> components >= ComponentsThreshold,
              next_label |-> first.next_label, max_labels |-> max_labels]

\* The binary image handed to components_check.
InitComponents ==
    /\ pc = "input"
    /\ layout_information = <<>>
    /\ blocks = <<>>
    /\ out = None
    /\ document \in ImagesUpTo(MaxH, MaxW)

\* components_check(binary_img).
ComponentsCheck ==
    /\ pc = "input"
    /\ pc' = "checked"
    /\ \E result \in {components_check(document)} : out' = result
    /\ UNCHANGED <<layout_information, blocks, document>>

NextComponents == ComponentsCheck

SpecComponents == InitComponents /\ [][NextComponents]_vars

\* Pixels k and l touch (8-neighbours).
Touching(image, k, l) ==
    LET dy == (k \div image.w) - (l \div image.w)
        dx == (k % image.w) - (l % image.w)
    IN  k # l /\ dy \in {-1, 0, 1} /\ dx \in {-1, 0, 1}

\* The foreground pixels linked to those of S by chains of touching
\* foreground pixels.
RECURSIVE Linked(_, _)
Linked(image, S) ==
    LET more == S \cup {l \in DOMAIN image.px :
                          image.px[l] /\ \E k \in S : Touching(image, k, l)}
    IN  IF more = S THEN S ELSE Linked(image, more)

\* The number of 8-connected foreground components.
ComponentCount(image) ==
    Cardinality({Linked(image, {k}) : k \in {l \in DOMAIN image.px : image.px[l]}})

\* C29: for every binary image from 1x1 upward components_check completes
\* without indexing outside its union-find arrays and returns the number
\* of 8-connected foreground components.
C29_ComponentCount ==
    pc = "checked" =>
        /\ out.raises = ""
        /\ out.components = ComponentCount(document)


(***************************************************************************)
(* hysteresis_thresholding (image_quality.py:312-364).  An image is        *)
(* [h, w, px] with px[y * w + x] the gradient magnitude of pixel (y, x);   *)
(* the result holds strong_val, weak_val or 0 per pixel.                   *)
(***************************************************************************)

MaxPixels == 6
StrongVal == 255
WeakVal == 50

PixelValues == {0, 60, 120}

\* low and high: a pixel value between them, on low, or low = high.
ThresholdChoices == {<<50, 100>>, <<60, 120>>, <<60, 60>>}

Shapes == {s \in (1..MaxPixels) \X (1..MaxPixels) : s[1] * s[2] <= MaxPixels}

GradientImages ==
    UNION {{[h |-> s[1], w |-> s[2], px |-> px] :
               px \in [0..(s[1] * s[2] - 1) -> PixelValues]} : s \in Shapes}

\* Lines 319-324: strong and weak pixels marked in the result.
MarkedResult(img, low, high) ==
    LET strong == {k \in DOMAIN img.px : img.px[k] >= high}
        weak == {k \in DOMAIN img.px : img.px[k] >= low /\ img.px[k] < high}
        zeros == [k \in DOMAIN img.px |-> 0]
        with_strong == [k \in DOMAIN img.px |->
                           IF k \in strong THEN StrongVal ELSE zeros[k]]
    IN  [k \in DOMAIN img.px |-> IF k \in weak THEN WeakVal ELSE with_strong[k]]

\* shifted[yd, xd] = strong_mask[ys, xs] for the shift (dy, dx): pixel
\* (y, x) of shifted holds strong_mask[y + dy, x + dx] where that is inside
\* the image, False elsewhere.
Shifted(img, strong_mask, dy, dx) ==
    [k \in DOMAIN img.px |->
        LET y == (k \div img.w) + dy
            x == (k % img.w) + dx
        IN  /\ 0 <= y /\ y < img.h /\ 0 <= x /\ x < img.w
            /\ strong_mask[y * img.w + x]]

\* Lines 336-355: neigh, the union of the eight shifts.
neigh_four(img, strong_mask) ==
    [k \in DOMAIN img.px |->
        \E dy \in {-1, 0, 1}, dx \in {-1, 0, 1} :
            /\ (dy = 0) # (dx = 0)
            /\ Shifted(img, strong_mask, dy, dx)[k]]
neigh(img, strong_mask) ==
    [k \in DOMAIN img.px |->
        \E dy \in {-1, 0, 1}, dx \in {-1, 0, 1} :
            /\ ~(dy = 0 /\ dx = 0)
            /\ Shifted(img, strong_mask, dy, dx)[k]]

\* Lines 329-361: one round of the loop per call; a round that promotes
\* nothing ends it.  The rounds are counted, and the loop is cut off when
\* they exceed cap.
RECURSIVE PromoteLoop(_, _, _, _)
PromoteLoop(img, result, rounds, cap) ==
    IF rounds > cap THEN [result |-> result, rounds |-> rounds, terminated |-> FALSE]
    ELSE LET strong_mask == [k \in DOMAIN result |-> result[k] = StrongVal]
             near == neigh(img, strong_mask)
             promote == {k \in DOMAIN result : result[k] = WeakVal /\ near[k]}
         IN  IF promote # {}
             THEN PromoteLoop(img,
                              [k \in DOMAIN result |->
                                  IF k \in promote THEN StrongVal ELSE result[k]],
                              rounds + 1, cap)
             ELSE [result |-> result, rounds |-> rounds + 1, terminated |-> TRUE]

hysteresis_thresholding(img, low, high) ==
    LET looped == PromoteLoop(img, MarkedResult(img, low, high), 0,
                              img.h * img.w + 1)
    IN  [looped EXCEPT !.result =
            [k \in DOMAIN @ |-> IF @[k] # StrongVal THEN 0 ELSE @[k]]]

\* The gradient image and the thresholds handed to hysteresis_thresholding.
InitHysteresis ==
    /\ pc = "input"
    /\ layout_information = <<>>
    /\ blocks = <<>>
    /\ out = None
    /\ \E img \in GradientImages, t \in ThresholdChoices :
          document = [img |-> img, low |-> t[1], high |-> t[2]]

\* hysteresis_thresholding(img, low, high).
HysteresisThresholding ==
    /\ pc = "input"
    /\ pc' = "thresholded"
    /\ \E r \in {hysteresis_thresholding(document.img, document.low, document.high)} :
          out' = r
    /\ UNCHANGED <<layout_information, blocks, document>>

NextHysteresis == HysteresisThresholding

SpecHysteresis == InitHysteresis /\ [][NextHysteresis]_vars

IsStrong(k) == document.img.px[k] >= document.high
IsWeak(k) == document.img.px[k] >= document.low /\ document.img.px[k] < document.high

\* S and the weak pixels linked to S by chains of touching weak pixels.
RECURSIVE WeakChain(_)
WeakChain(S) ==
    LET more == S \cup {l \in DOMAIN document.img.px :
                          IsWeak(l) /\ \E k \in S : Touching(document.img, k, l)}
    IN  IF more = S THEN S ELSE WeakChain(more)

\* The strong pixels and the weak pixels linked to a strong one.
Closure == WeakChain({k \in DOMAIN document.img.px : IsStrong(k)})

\* C30: for thresholds low <= high the propagation loop terminates, and a
\* pixel of the result is 255 exactly when it is strong or weak and linked
\* to a strong pixel by an 8-connected chain of weak pixels; every other
\* pixel is 0.
C30_HysteresisClosure ==
    pc = "thresholded" =>
        /\ out.terminated
        /\ \A k \in DOMAIN out.result :
              out.result[k] = IF k \in Closure THEN 255 ELSE 0

\* A weak pixel was promoted through another weak pixel (it touches no
\* strong pixel), and a weak pixel without a chain to a strong one was
\* dropped.
C30_Witness ==
    /\ pc = "thresholded"
    /\ out.terminated
    /\ out.rounds >= 3
    /\ \E k \in DOMAIN out.result :
          /\ IsWeak(k) /\ out.result[k] = 255
          /\ \A l \in DOMAIN out.result : IsStrong(l) => ~Touching(document.img, k, l)
    /\ \E k \in DOMAIN out.result : IsWeak(k) /\ out.result[k] = 0

===========================================================================
